---- MODULE Spec2Model ----
(***************************************************************************)
(* Little Dorrit Editor benchmark: the evaluator (match_edits, the judge   *)
(* loop and the EditMatch construction of evaluate), the `evaluate run`    *)
(* command around it, the response-JSON extractor and the prediction       *)
(* generator.                                                              *)
(*                                                                         *)
(* Conventions.                                                            *)
(*  - A Python dict produced by model_dump() is an object with identity;   *)
(*    it is modelled by its index in the list it was dumped from, and its  *)
(*    fields are looked up in that list.                                   *)
(*  - Scores are floats in the source; they are modelled in hundredths     *)
(*    (One = 1.0), exact arithmetic, no rounding.                          *)
(*  - A string is a sequence of characters; an LLM text is a sequence of   *)
(*    lexical tokens.                                                      *)
(***************************************************************************)
EXTENDS Integers, Sequences, FiniteSets, TLC

\* ------------------------------------------------------------------ bounds
\* longest ground-truth edit list
MaxGT == 2
\* longest predicted edit list
MaxPred == 2
\* longest model response text, in tokens
MaxText == 6
\* largest line number the penalty table is checked on
MaxLine == 5

\* ------------------------------------------------------------ basic values
\* Optional[int] = None (line_number, observed_edit_num, expected_edit_num, line_diff)
None == -1
\* 1.0 in hundredths
One == 100
\* a path at which no file exists, and a file with its parsed content
NoFile == <<>>
File(content) == <<content>>
Content(file) == file[1]
\* an optional value: absent (None, or a key not in the dict) or present
Absent == <<>>
Present(x) == <<x>>

Abs(x) == IF x < 0 THEN -x ELSE x
Min(a, b) == IF a < b THEN a ELSE b
Max(a, b) == IF a > b THEN a ELSE b
SetMin(S) == CHOOSE x \in S : \A y \in S : x <= y
SetMax(S) == CHOOSE x \in S : \A y \in S : x >= y

\* the values of the EditType enum
EditType == {"insertion", "deletion", "replacement", "punctuation",
             "capitalization", "reordering", "italicize"}

\* str.lower() on the type strings that occur
Lower(t) == CASE t = "Punctuation" -> "punctuation"
              [] t = "Insertion" -> "insertion"
              [] OTHER -> t

\* Python's `s in t` on strings
IsSubstring(s, t) ==
    \E k \in 0..(Len(t) - Len(s)) : SubSeq(t, k + 1, k + Len(s)) = s

\* --------------------------------------------------------------- the inputs
\* EditOperation records (the fields the evaluator reads)
EditOperation(ty, ln, orig, corr) ==
    [type |-> ty, line_number |-> ln, original_text |-> orig, corrected_text |-> corr]

\* the reference edit of the page and its texts
RefOriginal == <<"a", "b">>
RefCorrected == <<"c", "d">>

\* ground-truth edits: the type is any string, the line number may be absent
GTEdits ==
    { EditOperation(ty, ln, RefOriginal, RefCorrected) :
        ty \in {"punctuation", "insertion"}, ln \in {3, None} } \
    { EditOperation("insertion", None, RefOriginal, RefCorrected) }

\* (original_text, corrected_text) of a prediction: equal to the reference,
\* each of the four substring conditions alone, and no overlap
PredTexts ==
    { <<RefOriginal, RefCorrected>>,
      <<<<"a", "b", "x">>, <<"z">>>>,
      <<<<"a">>, <<"z">>>>,
      <<<<"z">>, <<"c", "d", "x">>>>,
      <<<<"z">>, <<"c">>>>,
      <<<<"z">>, <<"y">>>> }
PredTypes == {"punctuation", "Punctuation"}
PredLines == {None, 0, 3, 5, 7}

\* predicted edits: the reference edit changed in at most one of type, line, texts
PredEdits ==
    { EditOperation(ty, ln, tx[1], tx[2]) :
        ty \in PredTypes, ln \in PredLines, tx \in PredTexts } \cap
    { e \in [type : PredTypes, line_number : PredLines,
             original_text : {tx[1] : tx \in PredTexts},
             corrected_text : {tx[2] : tx \in PredTexts}] :
        Cardinality({f \in {"type", "line", "text"} :
            \/ f = "type" /\ e.type # "punctuation"
            \/ f = "line" /\ e.line_number # 3
            \/ f = "text" /\ <<e.original_text, e.corrected_text>> # <<RefOriginal, RefCorrected>>}) <= 1 }

SeqsUpTo(S, n) == UNION { [1..m -> S] : m \in 0..n }

\* ------------------------------------------------------------- match_edits
\* mutant: the predictions without a line number are not filtered out
FilterLineNumbered_M6(pred, k) == [j \in 1..(Len(pred) - k + 1) |-> j + k - 1]

\* filtered_pred_edits: the predictions that carry a line number, in order
RECURSIVE FilterLineNumbered(_, _)
FilterLineNumbered(pred, k) ==
    IF k > Len(pred) THEN <<>>
    ELSE (IF pred[k].line_number # None THEN <<k>> ELSE <<>>)
         \o FilterLineNumbered(pred, k + 1)

\* the four original/corrected substring conditions
TextOverlap(g, p) ==
    \/ IsSubstring(g.original_text, p.original_text)
    \/ IsSubstring(p.original_text, g.original_text)
    \/ IsSubstring(g.corrected_text, p.corrected_text)
    \/ IsSubstring(p.corrected_text, g.corrected_text)

\* mutant: the scan does not stop at the first prediction accepted, the last
\* one accepted wins
FirstFit_M2(g, pred, pool, k) ==
    LET accepted == {j \in k..Len(pool) :
                        /\ Lower(g.type) = Lower(pred[pool[j]].type)
                        /\ Abs(g.line_number - pred[pool[j]].line_number) <= 3
                        /\ TextOverlap(g, pred[pool[j]])}
    IN  IF accepted = {} THEN 0 ELSE SetMax(accepted)

\* mutant: the window is four lines wide
RECURSIVE FirstFit_M26(_, _, _, _)
FirstFit_M26(g, pred, pool, k) ==
    IF k > Len(pool) THEN 0
    ELSE LET p == pred[pool[k]] IN
         IF Lower(g.type) # Lower(p.type) THEN FirstFit_M26(g, pred, pool, k + 1)
         ELSE IF g.line_number = None THEN None
         ELSE IF Abs(g.line_number - p.line_number) <= 4 /\ TextOverlap(g, p) THEN k
         ELSE FirstFit_M26(g, pred, pool, k + 1)

\* the inner loop of match_edits over the pool for one ground-truth edit:
\* the position in the pool of the first prediction accepted, 0 when there is
\* none, None when the line arithmetic raises TypeError (ground-truth
\* line_number is None and a prediction of equal type is reached)
RECURSIVE FirstFit(_, _, _, _)
FirstFit(g, pred, pool, k) ==
    IF k > Len(pool) THEN 0
    ELSE LET p == pred[pool[k]] IN
         IF Lower(g.type) # Lower(p.type) THEN FirstFit(g, pred, pool, k + 1)
         ELSE IF g.line_number = None THEN None
         ELSE IF Abs(g.line_number - p.line_number) <= 3 /\ TextOverlap(g, p) THEN k
         ELSE FirstFit(g, pred, pool, k + 1)

RemoveAt(s, k) == SubSeq(s, 1, k - 1) \o SubSeq(s, k + 1, Len(s))

\* mutant: a prediction that was paired stays in the pool
RECURSIVE MatchLoop_M24(_, _, _, _)
MatchLoop_M24(gt, pred, gi, st) ==
    IF gi > Len(gt) \/ st.raised # "" THEN st
    ELSE LET k == FirstFit(gt[gi], pred, st.false_positives, 1) IN
         MatchLoop_M24(gt, pred, gi + 1,
            IF k = None THEN [st EXCEPT !.raised = "TypeError"]
            ELSE IF k = 0 THEN [st EXCEPT !.false_negatives = Append(@, gi)]
            ELSE [st EXCEPT !.true_positives = Append(@, <<gi, st.false_positives[k]>>)])

\* the outer loop of match_edits from ground-truth edit gi on
RECURSIVE MatchLoop(_, _, _, _)
MatchLoop(gt, pred, gi, st) ==
    IF gi > Len(gt) \/ st.raised # "" THEN st
    ELSE LET k == FirstFit(gt[gi], pred, st.false_positives, 1) IN
         MatchLoop(gt, pred, gi + 1,
            IF k = None THEN [st EXCEPT !.raised = "TypeError"]
            ELSE IF k = 0 THEN [st EXCEPT !.false_negatives = Append(@, gi)]
            ELSE [st EXCEPT !.true_positives = Append(@, <<gi, st.false_positives[k]>>),
                            !.false_positives = RemoveAt(@, k)])

\* match_edits(ground_truth, prediction): candidate pairs (ground-truth
\* index, prediction index), false positives (prediction indices), false
\* negatives (ground-truth indices)
match_edits(gt, pred) ==
    MatchLoop(gt, pred, 1,
        [true_positives |-> <<>>,
         false_positives |-> FilterLineNumbered(pred, 1),
         false_negatives |-> <<>>,
         raised |-> ""])

\* ------------------------------------------------------------- get_penalty
\* mutant: the penalty grows linearly with the distance
get_penalty_M8(gt_line, pred_line) == Min(One, 10 * Abs(gt_line - pred_line))

\* min(1.0, 0.1 * line_diff ** 2), in hundredths
get_penalty(gt_line, pred_line) ==
    Min(One, 10 * (Abs(gt_line - pred_line) * Abs(gt_line - pred_line)))

\* ------------------------------------------- extract_json_from_llm_response
\* An LLM text is a sequence of lexical tokens:
\*   "{" "}" "[" "]"   JSON punctuation
\*   "T"  the member  "is_correct": true      "N"  the member "is_correct": false
\*   "E"  the member  "edits": [ ... ] holding well-formed edit records
\*   "B"  the member  "edits": [ ... ] holding a record without its texts
\*   "F"  a code fence ```     "J"  the word json     "P"  a word of prose
ObjectMembers == {"T", "N", "E", "B"}

Invalid == [kind |-> "invalid"]

IndexSet(t, tok, from) == {k \in from..Len(t) : t[k] = tok}

\* json.loads on a token text: the JSON value, or Invalid for JSONDecodeError
RECURSIVE json_loads(_)
json_loads(t) ==
    IF Len(t) < 2 THEN Invalid
    ELSE LET inner == SubSeq(t, 2, Len(t) - 1) IN
         IF t[1] = "{" /\ t[Len(t)] = "}" THEN
             IF inner = <<>> THEN [kind |-> "object", members |-> {}]
             ELSE IF Len(inner) = 1 /\ inner[1] \in ObjectMembers
                  THEN [kind |-> "object", members |-> {inner[1]}]
             ELSE Invalid
         ELSE IF t[1] = "[" /\ t[Len(t)] = "]" THEN
             IF inner = <<>> THEN [kind |-> "array", items |-> <<>>]
             ELSE IF json_loads(inner) # Invalid
                  THEN [kind |-> "array", items |-> <<json_loads(inner)>>]
             ELSE Invalid
         ELSE Invalid

\* re.findall(r"```(?:json)?\s*([\s\S]*?)```", text): the captured block
\* contents from position `from` on, in order of appearance
RECURSIVE CodeBlocks(_, _)
CodeBlocks(t, from) ==
    IF IndexSet(t, "F", from) = {} THEN <<>>
    ELSE LET open == SetMin(IndexSet(t, "F", from))
             body == IF open < Len(t) /\ t[open + 1] = "J" THEN open + 2 ELSE open + 1
         IN  IF IndexSet(t, "F", body) = {} THEN <<>>
             ELSE LET close == SetMin(IndexSet(t, "F", body)) IN
                  <<SubSeq(t, body, close - 1)>> \o CodeBlocks(t, close + 1)

\* re.findall(r"\{[\s\S]*\}", text): greedy, so the one match runs from the
\* first "{" to the last "}" of the text
BraceMatches(t) ==
    IF IndexSet(t, "{", 1) = {} \/ IndexSet(t, "}", 1) = {} THEN <<>>
    ELSE LET a == SetMin(IndexSet(t, "{", 1))
             b == SetMax(IndexSet(t, "}", 1))
         IN  IF a < b THEN <<SubSeq(t, a, b)>> ELSE <<>>

\* the first candidate that json.loads accepts, Invalid when none does
RECURSIVE FirstParse(_, _)
FirstParse(cands, k) ==
    IF k > Len(cands) THEN Invalid
    ELSE IF json_loads(cands[k]) # Invalid THEN json_loads(cands[k])
    ELSE FirstParse(cands, k + 1)

\* the value returned, or Invalid when json.JSONDecodeError is raised
extract_json_from_llm_response(response_text) ==
    IF json_loads(response_text) # Invalid THEN json_loads(response_text)
    ELSE IF FirstParse(CodeBlocks(response_text, 1), 1) # Invalid
         THEN FirstParse(CodeBlocks(response_text, 1), 1)
    ELSE FirstParse(BraceMatches(response_text), 1)

\* the texts a judge model replies with
JudgeReplies ==
    { <<"{", "T", "}">>, <<"{", "N", "}">>, <<"{", "}">>,
      <<"F", "J", "{", "T", "}", "F">>, <<"P", "{", "N", "}", "P">>,
      <<"[", "]">>, <<"P">> }

\* ------------------------------------------------------------------- state
VARIABLES
    ground_truth_file,   \* the edits of the ground-truth file, or NoFile
    prediction_file,     \* the edits of the prediction file, or NoFile
    leaderboard_file,    \* the entries of leaderboard/results.json, or NoFile
    output_file,         \* the details written to --output, or NoFile
    pc,                  \* position of the `evaluate run` command
    true_positives,      \* candidate pairs returned by match_edits
    remaining_true_positives,
    false_positives,
    false_negatives,
    gt_edits_in_true_positives,  \* per ground-truth edit, its number of pairs
    judgments,           \* pair_key -> the judge's parsed reply
    i,                   \* index of the first pass (1-based)
    in_flight,           \* the pair of the outstanding judge call, or <<>>
    judge_calls,         \* history: the pairs of the judge calls issued
    unparsed,            \* history: the judge replies the extractor could not parse
    result,              \* the EvaluationResult details returned, or NoResult
    raised,              \* the exception that ended the command, "" if none
    red_lines,           \* number of red error lines printed
    exit_code,           \* None while running, then the exit status
    image_exists,        \* generate_predictions: the image path exists
    response_text,       \* generate_predictions: the text the model returned
    command,             \* the entry point that was started
    shots,               \* generate: number of few-shot examples requested
    sample_dataset,      \* generate: the sample dataset path, NoPath if None
    sample_dataset_exists,  \* generate: that path exists
    examples,            \* generate: number of examples loaded
    messages,            \* generate: the prompt built, "" before
    chat_calls,          \* generate: number of chat-completion calls issued
    input_dir,           \* convert run: "absent", "file" or "dir"
    output_dir,          \* convert run: the output directory exists
    dataset,             \* convert run: the dataset saved, or NoFile
    updates,             \* history: the results passed to update_leaderboard
    config_manager,      \* ConfigManager: _models and the environment
    load_history,        \* history: the configuration entries loaded
    predictions_dir,     \* site builder: the model directories, in iterdir order
    site_results,        \* site builder: the list in docs/results.json, or NoFile
    index_html,          \* the entries of leaderboard/index.html, or NoFile
    model_dir,           \* migrator: the tree of one model directory
    moved_files,         \* migrator: per run, the files it moved and its date
    model_stats,         \* auditor: the ModelStats of one model
    audit_args,          \* auditor: --strict, --target-runs, --suggest-fixes
    report               \* auditor: the status and the suggestion printed

vars == <<ground_truth_file, prediction_file, leaderboard_file, output_file, pc,
          true_positives, remaining_true_positives, false_positives,
          false_negatives, gt_edits_in_true_positives, judgments, i, in_flight,
          judge_calls, unparsed, result, raised, red_lines, exit_code,
          image_exists, response_text, command, shots, sample_dataset,
          sample_dataset_exists, examples, messages, chat_calls, input_dir,
          output_dir, dataset, updates, config_manager, load_history,
          predictions_dir, site_results, index_html, model_dir, moved_files,
          model_stats, audit_args, report>>

files == <<ground_truth_file, prediction_file>>
gen_inputs == <<command, shots, sample_dataset, sample_dataset_exists>>
gen_work == <<examples, messages, chat_calls>>
conv_vars == <<input_dir, output_dir, dataset>>
site_vars == <<predictions_dir, site_results>>
migrator_vars == <<model_dir, moved_files>>
auditor_vars == <<model_stats, audit_args, report>>
aux_core == <<updates, config_manager, load_history, site_vars, migrator_vars,
              auditor_vars>>
aux_vars == <<aux_core, index_html>>
gen_vars == <<image_exists, response_text, gen_inputs, gen_work, conv_vars, aux_vars>>
eval_work == <<true_positives, remaining_true_positives, false_positives,
               false_negatives, gt_edits_in_true_positives, judgments, i,
               in_flight, judge_calls, unparsed>>
eval_locals == <<eval_work, result>>

\* evaluate has returned no EvaluationResult / has returned one with these details
NoResult == <<>>
Returned(details) == <<details>>
Details(res) == res[1]

\* sample_dataset_path = None
NoPath == <<>>

\* the variables of the generate command, at rest
GenerateIdle ==
    /\ image_exists = FALSE
    /\ response_text = Absent
    /\ shots = 0
    /\ sample_dataset = NoPath
    /\ sample_dataset_exists = FALSE
    /\ examples = 0
    /\ messages = ""
    /\ chat_calls = 0

\* the variables of the convert command, at rest
ConvertIdle ==
    /\ input_dir = "absent"
    /\ output_dir = FALSE
    /\ dataset = NoFile

\* the site builder, not run
SiteIdle ==
    /\ predictions_dir = <<>>
    /\ site_results = NoFile

\* the migrator and the auditor, not run
ScriptsIdle ==
    /\ model_dir = <<>>
    /\ moved_files = <<>>
    /\ model_stats = <<>>
    /\ audit_args = <<>>
    /\ report = <<>>

\* the configuration manager, nothing loaded
ConfigIdle ==
    /\ config_manager = [models |-> <<>>, environ |-> ""]
    /\ load_history = <<>>

\* the variables of the other commands, at rest
OtherCommandsIdle ==
    /\ GenerateIdle
    /\ ConvertIdle
    /\ updates = <<>>
    /\ index_html = NoFile
    /\ ScriptsIdle
    /\ ConfigIdle
    /\ SiteIdle

\* an entry left in the store by an earlier release, which carried f1_score
OldEntry == [model_name |-> "old_model", f1_score |-> 50]

Init ==
    /\ ground_truth_file \in {NoFile} \cup {File(es) : es \in SeqsUpTo(GTEdits, MaxGT)}
    /\ prediction_file \in {NoFile} \cup {File(es) : es \in SeqsUpTo(PredEdits, MaxPred)}
    /\ leaderboard_file \in {NoFile, File(<<OldEntry>>)}
    /\ output_file = NoFile
    /\ pc = "run"
    /\ true_positives = <<>>
    /\ remaining_true_positives = <<>>
    /\ false_positives = <<>>
    /\ false_negatives = <<>>
    /\ gt_edits_in_true_positives = <<>>
    /\ judgments = <<>>
    /\ i = 1
    /\ in_flight = <<>>
    /\ judge_calls = <<>>
    /\ unparsed = <<>>
    /\ result = NoResult
    /\ raised = ""
    /\ red_lines = 0
    /\ exit_code = None
    /\ command = "run"
    /\ OtherCommandsIdle

\* `except Exception as e` of run: one red "Error:" line, exit status 1
Fail(exc) ==
    /\ raised' = exc
    /\ red_lines' = red_lines + 1
    /\ exit_code' = 1
    /\ pc' = "exit"

\* ------------------------------------------------------ evaluate run (CLI)
\* the pre-flight path checks: a missing path prints its "not found" line and
\* raises typer.Exit(1) inside the try block; typer.Exit is a RuntimeError,
\* so the catch-all prints a second line before exiting with status 1
RunValidatePaths ==
    /\ pc = "run"
    /\ IF prediction_file = NoFile \/ ground_truth_file = NoFile
       THEN /\ raised' = "Exit"
            /\ red_lines' = red_lines + 2
            /\ exit_code' = 1
            /\ pc' = "exit"
       ELSE /\ pc' = "get_model"
            /\ UNCHANGED <<raised, red_lines, exit_code>>
    /\ UNCHANGED <<files, gen_vars, leaderboard_file, output_file, eval_locals>>

\* get_model(llm_model): KeyError when the identifier was never loaded
RunGetModel ==
    /\ pc = "get_model"
    /\ \E known \in BOOLEAN :
        IF known
        THEN pc' = "match" /\ UNCHANGED <<raised, red_lines, exit_code>>
        ELSE Fail("KeyError")
    /\ UNCHANGED <<files, gen_vars, leaderboard_file, output_file, eval_locals>>

\* ---------------------------------------------------------------- evaluate
\* load both annotations, match_edits, count the pairs of each ground-truth
\* edit, copy the candidate list
EvalMatch ==
    /\ pc = "match"
    /\ LET m == match_edits(Content(ground_truth_file), Content(prediction_file)) IN
       IF m.raised # ""
       THEN Fail(m.raised) /\ UNCHANGED eval_locals
       ELSE /\ true_positives' = m.true_positives
            /\ remaining_true_positives' = m.true_positives
            /\ false_positives' = m.false_positives
            /\ false_negatives' = m.false_negatives
            /\ gt_edits_in_true_positives' =
                 [g \in 1..Len(Content(ground_truth_file)) |->
                    Cardinality({k \in 1..Len(m.true_positives) : m.true_positives[k][1] = g})]
            /\ pc' = "first_pass"
            /\ UNCHANGED <<judgments, i, in_flight, judge_calls, unparsed,
                           result, raised, red_lines, exit_code>>
    /\ UNCHANGED <<files, gen_vars, leaderboard_file, output_file>>

\* first pass, `if pair_key not in judgments`: issue the judge call for pair i
EvalJudgeCall ==
    /\ pc = "first_pass"
    /\ i <= Len(remaining_true_positives)
    /\ remaining_true_positives[i] \notin DOMAIN judgments
    /\ in_flight = <<>>
    /\ in_flight' = remaining_true_positives[i]
    /\ judge_calls' = Append(judge_calls, remaining_true_positives[i])
    /\ UNCHANGED <<files, gen_vars, leaderboard_file, output_file, pc, true_positives,
                   remaining_true_positives, false_positives, false_negatives,
                   gt_edits_in_true_positives, judgments, i, unparsed,
                   result, raised, red_lines, exit_code>>

\* mutant: a reply that cannot be parsed falls back to the verdict "incorrect"
evaluate_edit_M9(reply) ==
    IF extract_json_from_llm_response(reply) = Invalid
    THEN [kind |-> "object", members |-> {}]
    ELSE extract_json_from_llm_response(reply)

\* LLMJudge.evaluate_edit on the reply text of the model: the extractor's
\* value, Invalid when json.JSONDecodeError propagates
evaluate_edit(reply) == extract_json_from_llm_response(reply)

\* mutant: the judgment is not kept in the cache
StoreJudgment_M7(js, pair_key, judgment) == js

\* judgments[pair_key] = judge.evaluate_edit(gt_edit, pred_edit)
StoreJudgment(js, pair_key, judgment) == (pair_key :> judgment) @@ js

\* the judge call of pair i returns: a reply the extractor cannot parse
\* raises json.JSONDecodeError out of evaluate
EvalJudgeReply ==
    /\ pc = "first_pass"
    /\ in_flight # <<>>
    /\ \E reply \in JudgeReplies :
        LET v == evaluate_edit(reply) IN
        /\ unparsed' = IF extract_json_from_llm_response(reply) = Invalid
                     THEN Append(unparsed, reply) ELSE unparsed
        /\ in_flight' = <<>>
        /\ IF v = Invalid
           THEN Fail("JSONDecodeError") /\ UNCHANGED judgments
           ELSE /\ judgments' = StoreJudgment(judgments, in_flight, v)
                /\ UNCHANGED <<pc, raised, red_lines, exit_code>>
    /\ UNCHANGED <<files, gen_vars, leaderboard_file, output_file, true_positives,
                   remaining_true_positives, false_positives, false_negatives,
                   gt_edits_in_true_positives, i, judge_calls, result>>

\* the chat-completion call of the judge fails (network, authentication, ...)
EvalJudgeError ==
    /\ pc = "first_pass"
    /\ in_flight # <<>>
    /\ in_flight' = <<>>
    /\ Fail("APIError")
    /\ UNCHANGED <<files, gen_vars, leaderboard_file, output_file, true_positives,
                   remaining_true_positives, false_positives, false_negatives,
                   gt_edits_in_true_positives, judgments, i, judge_calls,
                   unparsed, result>>

\* mutant: the judge's verdict is not consulted
IsCorrect_M3(judgment, line_penalty) == ~(line_penalty >= One)

\* the judge's verdict combined with the line penalty
IsCorrect(judgment, line_penalty) ==
    ("T" \in judgment.members) /\ ~(line_penalty >= One)

\* first pass, after the judgment of pair i is known: keep the pair or
\* dissolve it into a false positive and (counter at 0) a false negative
EvalFirstPass ==
    /\ pc = "first_pass"
    /\ i <= Len(remaining_true_positives)
    /\ remaining_true_positives[i] \in DOMAIN judgments
    /\ in_flight = <<>>
    /\ LET pair == remaining_true_positives[i]
           gt_edit == Content(ground_truth_file)[pair[1]]
           pred_edit == Content(prediction_file)[pair[2]]
           judgment == judgments[pair]
           line_penalty == get_penalty(gt_edit.line_number, pred_edit.line_number)
           line_diff == Abs(gt_edit.line_number - pred_edit.line_number)
       IN
       IF judgment.kind # "object"
       THEN \* judgment["line_diff"] = ... on a list
            Fail("TypeError") /\ UNCHANGED eval_locals
       ELSE /\ judgments' = [judgments EXCEPT ![pair] =
                    [kind |-> "object", members |-> judgment.members,
                     line_diff |-> line_diff, line_penalty |-> line_penalty]]
            /\ IF IsCorrect(judgment, line_penalty)
               THEN /\ i' = i + 1
                    /\ UNCHANGED <<remaining_true_positives, false_positives,
                                   false_negatives, gt_edits_in_true_positives>>
               ELSE /\ false_positives' = Append(false_positives, pair[2])
                    /\ gt_edits_in_true_positives' =
                         [gt_edits_in_true_positives EXCEPT ![pair[1]] = @ - 1]
                    /\ false_negatives' =
                         IF gt_edits_in_true_positives[pair[1]] - 1 = 0
                         THEN Append(false_negatives, pair[1])
                         ELSE false_negatives
                    /\ remaining_true_positives' = RemoveAt(remaining_true_positives, i)
                    /\ UNCHANGED i
            /\ UNCHANGED <<true_positives, in_flight, judge_calls, unparsed,
                           result, pc, raised, red_lines, exit_code>>
    /\ UNCHANGED <<files, gen_vars, leaderboard_file, output_file>>

\* EditMatch(...); pred_ref and gt_ref are history fields (not in the source)
\* recording which prediction / ground-truth object the entry was built from
EditMatch(observed, expected, tp, fp, fn, ty, line, diff, penalty, judgement, p, g) ==
    [observed_edit_num |-> observed, expected_edit_num |-> expected,
     tp |-> tp, fp |-> fp, fn |-> fn, type |-> ty,
     observed_line_number |-> line, line_diff |-> diff,
     line_number_penalty |-> penalty, judgement |-> judgement,
     pred_ref |-> p, gt_ref |-> g]

\* mutant: the remainder 1 - score is given to fp and to fn without halving
MatchedEntry_M1(gt, pred, js, pair, valid_match_index) ==
    LET line_penalty == js[pair].line_penalty
        score == Max(0, One - line_penalty)
    IN  EditMatch(valid_match_index, valid_match_index,
                  score, One - score, One - score,
                  pred[pair[2]].type, pred[pair[2]].line_number,
                  js[pair].line_diff, line_penalty, "reasoning",
                  pair[2], pair[1])

\* second pass: the EditMatch of the k-th surviving pair
MatchedEntry(gt, pred, js, pair, valid_match_index) ==
    LET line_penalty == js[pair].line_penalty
        score == Max(0, One - line_penalty)
    IN  EditMatch(valid_match_index, valid_match_index,
                  score, (One - score) \div 2, (One - score) \div 2,
                  pred[pair[2]].type, pred[pair[2]].line_number,
                  js[pair].line_diff, line_penalty, "reasoning",
                  pair[2], pair[1])

\* the EditMatch of the k-th (0-based) false positive
FalsePositiveEntry(pred, p, valid_match_index, k) ==
    EditMatch(valid_match_index + k, None, 0, One, 0,
              pred[p].type, pred[p].line_number, None, 0, "False positive", p, None)

\* mutant: the false negatives are numbered from 0
FalseNegativeEntry_M25(gt, g, valid_match_index, k) ==
    EditMatch(None, k, 0, 0, One,
              gt[g].type, None, None, 0, "False negative", None, g)

\* the EditMatch of the k-th (0-based) false negative
FalseNegativeEntry(gt, g, valid_match_index, k) ==
    EditMatch(None, valid_match_index + k, 0, 0, One,
              gt[g].type, None, None, 0, "False negative", None, g)

\* the details list of evaluate: surviving pairs, false positives, false negatives
BuildDetails(gt, pred, js, rem, fps, fns) ==
    [k \in 1..Len(rem) |-> MatchedEntry(gt, pred, js, rem[k], k - 1)]
    \o [k \in 1..Len(fps) |-> FalsePositiveEntry(pred, fps[k], Len(rem), k - 1)]
    \o [k \in 1..Len(fns) |-> FalseNegativeEntry(gt, fns[k], Len(rem), k - 1)]

\* second pass and the false positive / false negative loops; EditType(...)
\* raises ValueError on a type string that is not a value of the enum
EvalBuildDetails ==
    /\ pc = "first_pass"
    /\ i > Len(remaining_true_positives)
    /\ LET details == BuildDetails(Content(ground_truth_file), Content(prediction_file), judgments,
                                   remaining_true_positives, false_positives,
                                   false_negatives)
       IN
       IF \E k \in 1..Len(details) : details[k].type \notin EditType
       THEN Fail("ValueError") /\ UNCHANGED result
       ELSE /\ result' = Returned(details)
            /\ pc' = "save"
            /\ UNCHANGED <<raised, red_lines, exit_code>>
    /\ UNCHANGED <<files, gen_vars, leaderboard_file, output_file, true_positives,
                   remaining_true_positives, false_positives, false_negatives,
                   gt_edits_in_true_positives, judgments, i, in_flight, judge_calls,
                   unparsed>>

\* ------------------------------------------- evaluate run, after evaluate
\* display_results, then `if output:` json.dump(result.model_dump())
RunSaveOutput ==
    /\ pc = "save"
    /\ \E output \in BOOLEAN :
        output_file' = IF output THEN File(Details(result)) ELSE output_file
    /\ pc' = "leaderboard"
    /\ UNCHANGED <<files, gen_vars, leaderboard_file, eval_locals, raised, red_lines, exit_code>>

\* load_leaderboard: the entries, an absent store being created empty
load_leaderboard(store) == IF store = NoFile THEN File(<<>>) ELSE store

\* result.model_dump(): the fields of EvaluationResult (there is no f1_score)
ModelDump(model_name, date, details) ==
    [model_name |-> model_name, date |-> date, details |-> details]

\* the for/else of update_leaderboard: the first entry of that model_name is
\* replaced, or the new entry is appended
RECURSIVE ReplaceOrAppend(_, _, _)
ReplaceOrAppend(leaderboard, result_dict, k) ==
    IF k > Len(leaderboard) THEN Append(leaderboard, result_dict)
    ELSE IF leaderboard[k].model_name = result_dict.model_name
         THEN [leaderboard EXCEPT ![k] = result_dict]
    ELSE ReplaceOrAppend(leaderboard, result_dict, k + 1)

\* list.sort(key=f1_score, reverse=True): stable, descending
RECURSIVE SortByF1(_)
SortByF1(leaderboard) ==
    IF leaderboard = <<>> THEN <<>>
    ELSE LET top == SetMax({leaderboard[k].f1_score : k \in 1..Len(leaderboard)})
             first == SetMin({k \in 1..Len(leaderboard) : leaderboard[k].f1_score = top})
         IN  <<leaderboard[first]>> \o SortByF1(RemoveAt(leaderboard, first))

\* mutant: the store is written before it is sorted
update_leaderboard_M27(store, result_dict) ==
    LET loaded == load_leaderboard(store)
        leaderboard == ReplaceOrAppend(Content(loaded), result_dict, 1)
    IN  IF \E k \in 1..Len(leaderboard) : "f1_score" \notin DOMAIN leaderboard[k]
        THEN [store |-> File(leaderboard), html |-> Absent, raised |-> "KeyError"]
        ELSE [store |-> File(SortByF1(leaderboard)),
              html |-> Present(SortByF1(leaderboard)), raised |-> ""]

\* update_leaderboard(result): the store it leaves and the exception it
\* raises.  The sort reads x["f1_score"] of every entry and raises KeyError
\* on one that has none, before the store is written; load_leaderboard has
\* created an absent store by then
update_leaderboard(store, result_dict) ==
    LET loaded == load_leaderboard(store)
        leaderboard == ReplaceOrAppend(Content(loaded), result_dict, 1)
    IN  IF \E k \in 1..Len(leaderboard) : "f1_score" \notin DOMAIN leaderboard[k]
        THEN [store |-> loaded, html |-> Absent, raised |-> "KeyError"]
        ELSE [store |-> File(SortByF1(leaderboard)),
              html |-> Present(SortByF1(leaderboard)), raised |-> ""]

\* generate_html(leaderboard, index.html) when update_leaderboard reached it
GeneratedHtml(out, page) ==
    IF out.html = Absent THEN page ELSE File(out.html[1])

\* `if update_leaderboard:` update_leaderboard(result)
RunUpdateLeaderboard ==
    /\ pc = "leaderboard"
    /\ \E update \in BOOLEAN :
        IF update
        THEN LET out == update_leaderboard(leaderboard_file,
                            ModelDump("model_name", "date", Details(result)))
             IN  /\ leaderboard_file' = out.store
                 /\ index_html' = GeneratedHtml(out, index_html)
                 /\ IF out.raised # "" THEN Fail(out.raised)
                    ELSE /\ exit_code' = 0
                         /\ pc' = "exit"
                         /\ UNCHANGED <<raised, red_lines>>
        ELSE /\ exit_code' = 0
             /\ pc' = "exit"
             /\ UNCHANGED <<leaderboard_file, index_html, raised, red_lines>>
    /\ UNCHANGED <<files, image_exists, response_text, gen_inputs, gen_work,
                   conv_vars, aux_core, output_file, eval_locals>>

Next ==
    \/ RunValidatePaths
    \/ RunGetModel
    \/ EvalMatch
    \/ EvalJudgeCall
    \/ EvalJudgeReply
    \/ EvalJudgeError
    \/ EvalFirstPass
    \/ EvalBuildDetails
    \/ RunSaveOutput
    \/ RunUpdateLeaderboard

Spec == Init /\ [][Next]_vars

\* ---------------------------------------------------- generate_predictions
\* the tokens of a prediction model's response
ResponseTokens == {"{", "}", "E", "F", "J", "P"}

\* the texts a prediction model responds with
ModelResponses ==
    { <<"{", "E", "}">>, <<"{", "B", "}">>, <<"{", "}">>,
      <<"F", "J", "{", "E", "}", "F">>, <<"P", "{", "E", "}", "P">>,
      <<"[", "]">>, <<"P">> }

\* response.choices[0].message.content[:1000]
RawResponseLimit == 1000
Prefix(text, n) == SubSeq(text, 1, Min(Len(text), n))

\* the value of the "edits" member of a parsed response
EditsMember(predictions) ==
    IF "E" \in predictions.members
    THEN <<[type |-> "insertion", original_text |-> "a", corrected_text |-> "b"]>>
    ELSE <<[type |-> "insertion"]>>

\* predictions.get("edits", []): the value of the edits member, [] by default
GetEdits(predictions) ==
    IF predictions.members \cap {"E", "B"} # {} THEN EditsMember(predictions) ELSE <<>>

\* full_prediction, with the error and raw_response keys when parsing failed
FullPrediction(edits, error, raw_response) ==
    [image |-> "image.name", page_number |-> 1, source |-> "Little Dorrit",
     edits |-> edits, annotator |-> "logical_name", verified |-> FALSE,
     error |-> error, raw_response |-> raw_response]

\* largest number of few-shot examples requested
MaxShots == 2

\* sample dataset paths, as character strings
SamplePaths ==
    { <<"s", "a", "m">>, <<"e", "v", "a", "l">>, <<"E", "v", "A", "L">>,
      <<"d", "e", "v", "a", "l", "s">>, <<"e", "v", "a">> }

\* str.lower() on the characters that occur in the paths
LowerChar(c) == CASE c = "E" -> "e" [] c = "V" -> "v" [] c = "A" -> "a"
                  [] c = "L" -> "l" [] OTHER -> c
LowerStr(str) == [k \in DOMAIN str |-> LowerChar(str[k])]

\* mutant: the safety check compares the path as written
IsEvalPath_M11(path) == IsSubstring(<<"e", "v", "a", "l">>, path)

\* 'eval' in str(sample_dataset_path).lower()
IsEvalPath(path) == IsSubstring(<<"e", "v", "a", "l">>, LowerStr(path))

\* load_examples(dataset_path, num_examples) on a dataset of `size` rows that
\* load_from_disk can (loads) or cannot open: the exception raised, whether
\* load_from_disk was called, the number of examples returned
load_examples(dataset_path, num_examples, loads, size) ==
    IF IsEvalPath(dataset_path)
    THEN [raised |-> "ValueError", load_called |-> FALSE, examples |-> 0]
    ELSE IF ~loads
    THEN [raised |-> "FileNotFoundError", load_called |-> TRUE, examples |-> 0]
    ELSE [raised |-> "", load_called |-> TRUE, examples |-> Min(size, num_examples)]

InitGenerate ==
    /\ command \in {"generate_predictions", "generate"}
    /\ image_exists \in BOOLEAN
    /\ shots \in 0..MaxShots
    /\ sample_dataset \in SamplePaths \cup {NoPath}
    /\ sample_dataset = NoPath => command = "generate_predictions"
    /\ sample_dataset_exists \in BOOLEAN
    /\ sample_dataset = NoPath => ~sample_dataset_exists
    /\ response_text = Absent
    /\ examples = 0
    /\ messages = ""
    /\ chat_calls = 0
    /\ input_dir = "absent"
    /\ output_dir = FALSE
    /\ dataset = NoFile
    /\ updates = <<>>
    /\ index_html = NoFile
    /\ ScriptsIdle
    /\ config_manager = [models |-> <<>>, environ |-> ""]
    /\ load_history = <<>>
    /\ SiteIdle
    /\ ground_truth_file = NoFile
    /\ prediction_file = NoFile
    /\ leaderboard_file = NoFile
    /\ output_file = NoFile
    /\ pc = command
    /\ true_positives = <<>>
    /\ remaining_true_positives = <<>>
    /\ false_positives = <<>>
    /\ false_negatives = <<>>
    /\ gt_edits_in_true_positives = <<>>
    /\ judgments = <<>>
    /\ i = 1
    /\ in_flight = <<>>
    /\ judge_calls = <<>>
    /\ unparsed = <<>>
    /\ result = NoResult
    /\ raised = ""
    /\ red_lines = 0
    /\ exit_code = None

\* generate_predictions raises exc to its caller
GenRaise(exc) ==
    /\ raised' = exc
    /\ pc' = "exit"

gen_frame == <<files, leaderboard_file, eval_work, exit_code, gen_inputs, conv_vars,
               aux_vars>>

\* `if not image_path.exists(): raise FileNotFoundError`
GenValidateImage ==
    /\ pc = "generate_predictions"
    /\ IF image_exists THEN pc' = "gen_examples" /\ UNCHANGED raised
       ELSE GenRaise("FileNotFoundError")
    /\ UNCHANGED <<gen_frame, gen_work, image_exists, response_text, output_file,
                   red_lines, result>>

\* the prompt: "few-shot" when examples were loaded, else "zero-shot"
PromptOf(n) == IF n > 0 THEN "few-shot" ELSE "zero-shot"

\* the few-shot block: a missing dataset falls back to zero-shot with a
\* warning, an evaluation path raises ValueError, load_examples may raise;
\* then the prompt is built
GenLoadExamples ==
    /\ pc = "gen_examples"
    /\ IF shots > 0 /\ sample_dataset # NoPath /\ sample_dataset_exists
       THEN IF IsEvalPath(sample_dataset)
            THEN GenRaise("ValueError") /\ UNCHANGED <<examples, messages>>
            ELSE \E loads \in BOOLEAN : \E size \in 0..MaxShots :
                    LET loaded == load_examples(sample_dataset, shots, loads, size) IN
                    IF loaded.raised # ""
                    THEN GenRaise(loaded.raised) /\ UNCHANGED <<examples, messages>>
                    ELSE /\ examples' = loaded.examples
                         /\ messages' = PromptOf(loaded.examples)
                         /\ pc' = "gen_get_model"
                         /\ UNCHANGED raised
       ELSE /\ messages' = PromptOf(0)
            /\ pc' = "gen_get_model"
            /\ UNCHANGED <<examples, raised>>
    /\ UNCHANGED <<gen_frame, chat_calls, image_exists, response_text, output_file,
                   red_lines, result>>

\* get_model(model_id)
GenGetModel ==
    /\ pc = "gen_get_model"
    /\ \E known \in BOOLEAN :
        IF known THEN pc' = "gen_call" /\ UNCHANGED raised
        ELSE GenRaise("KeyError")
    /\ UNCHANGED <<gen_frame, gen_work, image_exists, response_text, output_file,
                   red_lines, result>>

\* client.chat.completions.create(...) returns a text or fails
GenCallModel ==
    /\ pc = "gen_call"
    /\ chat_calls' = chat_calls + 1
    /\ \/ \E text \in ModelResponses :
            /\ response_text' = Present(text)
            /\ pc' = "gen_parse"
            /\ UNCHANGED raised
       \/ GenRaise("APIError") /\ UNCHANGED response_text
    /\ UNCHANGED <<gen_frame, examples, messages, image_exists, output_file,
                   red_lines, result>>

\* the try/except around the extractor, the full prediction, the file write
GenParseAndSave ==
    /\ pc = "gen_parse"
    /\ LET text == response_text[1]
           predictions == extract_json_from_llm_response(text)
       IN
       IF predictions = Invalid
       THEN \* except json.JSONDecodeError: empty edits and the error fields
            LET full_prediction ==
                    FullPrediction(<<>>, Present("Failed to parse model output as JSON"),
                                   Present(Prefix(text, RawResponseLimit)))
            IN  /\ output_file' = File(full_prediction)
                /\ result' = Returned(full_prediction)
                /\ red_lines' = red_lines + 1
                /\ pc' = "exit"
                /\ UNCHANGED raised
       ELSE IF predictions.kind # "object"
       THEN \* predictions.get on a list: AttributeError, not caught
            GenRaise("AttributeError") /\ UNCHANGED <<output_file, result, red_lines>>
       ELSE LET full_prediction == FullPrediction(GetEdits(predictions), Absent, Absent)
            IN  /\ output_file' = File(full_prediction)
                /\ result' = Returned(full_prediction)
                /\ pc' = "exit"
                /\ UNCHANGED <<raised, red_lines>>
    /\ UNCHANGED <<gen_frame, gen_work, image_exists, response_text>>

\* ------------------------------------------------- evaluate generate (CLI)
cli_frame == <<files, leaderboard_file, eval_work, gen_inputs, conv_vars, result,
               aux_vars>>

\* a red line of its own, then `raise typer.Exit(code=1)` inside the try
\* block of the command: typer.Exit is a RuntimeError, so the catch-all
\* prints its "Error:" line too before exiting with status 1
ExitInsideTry ==
    /\ raised' = "Exit"
    /\ red_lines' = red_lines + 2
    /\ exit_code' = 1
    /\ pc' = "exit"

\* `if not image.exists():` red "Image file not found" line, typer.Exit(1)
CliValidateImage ==
    /\ pc = "generate"
    /\ IF image_exists
       THEN pc' = "cli_examples" /\ UNCHANGED <<raised, red_lines, exit_code>>
       ELSE ExitInsideTry
    /\ UNCHANGED <<cli_frame, gen_work, image_exists, response_text, output_file>>

\* `if shots > 0:` a missing dataset and a failing load_examples fall back
\* to zero-shot with a warning; an evaluation path prints the red CRITICAL
\* SAFETY ERROR line and exits; then the prompt is built
CliLoadExamples ==
    /\ pc = "cli_examples"
    /\ IF shots > 0 /\ sample_dataset_exists
       THEN IF IsEvalPath(sample_dataset)
            THEN ExitInsideTry /\ UNCHANGED <<examples, messages>>
            ELSE \E loads \in BOOLEAN : \E size \in 0..MaxShots :
                    LET loaded == load_examples(sample_dataset, shots, loads, size) IN
                    /\ examples' = loaded.examples
                    /\ messages' = PromptOf(loaded.examples)
                    /\ pc' = "cli_get_model"
                    /\ UNCHANGED <<raised, red_lines, exit_code>>
       ELSE /\ messages' = PromptOf(0)
            /\ pc' = "cli_get_model"
            /\ UNCHANGED <<examples, raised, red_lines, exit_code>>
    /\ UNCHANGED <<cli_frame, chat_calls, image_exists, response_text, output_file>>

\* get_model(model_id): KeyError for an unknown identifier
CliGetModel ==
    /\ pc = "cli_get_model"
    /\ \E known \in BOOLEAN :
        IF known THEN pc' = "cli_call" /\ UNCHANGED <<raised, red_lines, exit_code>>
        ELSE Fail("KeyError")
    /\ UNCHANGED <<cli_frame, gen_work, image_exists, response_text, output_file>>

\* client.chat.completions.create(...) returns a text or fails
CliCallModel ==
    /\ pc = "cli_call"
    /\ chat_calls' = chat_calls + 1
    /\ \/ \E text \in ModelResponses :
            /\ response_text' = Present(text)
            /\ pc' = "cli_parse"
            /\ UNCHANGED <<raised, red_lines, exit_code>>
       \/ Fail("APIError") /\ UNCHANGED response_text
    /\ UNCHANGED <<cli_frame, examples, messages, image_exists, output_file>>

\* the extractor, predictions["edits"], the full prediction, the file write;
\* every exception reaches the catch-all
CliParseAndSave ==
    /\ pc = "cli_parse"
    /\ LET predictions == extract_json_from_llm_response(response_text[1]) IN
       IF predictions = Invalid
       THEN Fail("JSONDecodeError") /\ UNCHANGED output_file
       ELSE IF predictions.kind # "object"
       THEN Fail("TypeError") /\ UNCHANGED output_file
       ELSE IF predictions.members \cap {"E", "B"} = {}
       THEN Fail("KeyError") /\ UNCHANGED output_file
       ELSE /\ output_file' = File(FullPrediction(EditsMember(predictions), Absent, Absent))
            /\ exit_code' = 0
            /\ pc' = "exit"
            /\ UNCHANGED <<raised, red_lines>>
    /\ UNCHANGED <<cli_frame, gen_work, image_exists, response_text>>

NextGenerate ==
    \/ GenValidateImage
    \/ GenLoadExamples
    \/ GenGetModel
    \/ GenCallModel
    \/ GenParseAndSave
    \/ CliValidateImage
    \/ CliLoadExamples
    \/ CliGetModel
    \/ CliCallModel
    \/ CliParseAndSave

SpecGenerate == InitGenerate /\ [][NextGenerate]_vars

\* ------------------------------------------------------- update_leaderboard
\* the variables of evaluate and of its command, at rest
EvaluateIdle ==
    /\ ground_truth_file = NoFile
    /\ prediction_file = NoFile
    /\ output_file = NoFile
    /\ true_positives = <<>>
    /\ remaining_true_positives = <<>>
    /\ false_positives = <<>>
    /\ false_negatives = <<>>
    /\ gt_edits_in_true_positives = <<>>
    /\ judgments = <<>>
    /\ i = 1
    /\ in_flight = <<>>
    /\ judge_calls = <<>>
    /\ unparsed = <<>>
    /\ result = NoResult
    /\ raised = ""
    /\ red_lines = 0
    /\ exit_code = None

\* longest sequence of update_leaderboard calls
MaxUpdates == 3

\* the results passed to update_leaderboard: model names, and details
\* identified by the F1 score they aggregate to (in hundredths)
ModelNames == {"model_a", "model_b"}
DetailsByF1 == {0, 50, 100}

\* the store is absent or empty; update_leaderboard is called in sequence
InitLeaderboard ==
    /\ command = "update_leaderboard"
    /\ pc = "update_leaderboard"
    /\ leaderboard_file \in {NoFile, File(<<>>)}
    /\ EvaluateIdle
    /\ OtherCommandsIdle

\* one call update_leaderboard(result); an exception goes to the caller
UpdateLeaderboardCall ==
    /\ pc = "update_leaderboard"
    /\ Len(updates) < MaxUpdates
    /\ \E model_name \in ModelNames : \E details \in DetailsByF1 :
        LET result_dict == ModelDump(model_name, Len(updates) + 1, details)
            out == update_leaderboard(leaderboard_file, result_dict)
        IN  /\ updates' = Append(updates, result_dict)
            /\ leaderboard_file' = out.store
            /\ index_html' = GeneratedHtml(out, index_html)
            /\ raised' = out.raised
    /\ UNCHANGED <<files, output_file, pc, eval_locals, red_lines, exit_code,
                   image_exists, response_text, gen_inputs, gen_work, conv_vars,
                   config_manager, load_history, site_vars, migrator_vars,
                   auditor_vars>>

NextLeaderboard == UpdateLeaderboardCall

SpecLeaderboard == InitLeaderboard /\ [][NextLeaderboard]_vars

\* an entry of an earlier release under a name that is updated again
StoredEntry == [model_name |-> "model_a", f1_score |-> 100]

\* the stores update_leaderboard can find: absent, empty, or holding entries
Stores == {NoFile, File(<<>>), File(<<OldEntry>>), File(<<StoredEntry, OldEntry>>)}

\* update_leaderboard is called in sequence on any of these stores
InitStores ==
    /\ command = "update_leaderboard"
    /\ pc = "update_leaderboard"
    /\ leaderboard_file \in Stores
    /\ EvaluateIdle
    /\ OtherCommandsIdle

SpecStores == InitStores /\ [][NextLeaderboard]_vars

\* ------------------------------------------- extract_json_from_llm_response
\* response_text[:3000] of the error message
MessageLimit == 3000

\* mutant: the search between curly braces is left out
ExtractOutcome_M17(text) ==
    LET value == IF json_loads(text) # Invalid THEN json_loads(text)
                 ELSE FirstParse(CodeBlocks(text, 1), 1)
    IN  IF value # Invalid
        THEN [raised |-> "", value |-> value, message |-> <<>>]
        ELSE [raised |-> "JSONDecodeError", value |-> Invalid,
              message |-> Prefix(text, MessageLimit)]

\* a call of the extractor: the value returned, or the JSONDecodeError
\* raised with the text of its message, "Could not extract valid JSON from
\* response: " followed by response_text[:3000]
ExtractOutcome(text) ==
    LET value == extract_json_from_llm_response(text) IN
    IF value # Invalid
    THEN [raised |-> "", value |-> value, message |-> <<>>]
    ELSE [raised |-> "JSONDecodeError", value |-> Invalid,
          message |-> Prefix(text, MessageLimit)]

\* texts that hold a JSON array: alone, in a fenced block, around an object
ArrayTexts ==
    { <<"[", "]">>, <<"F", "J", "[", "]", "F">>, <<"[", "{", "E", "}", "]">> }

InitExtract ==
    /\ command = "extract"
    /\ pc = "extract"
    /\ response_text \in {Present(t) : t \in SeqsUpTo(ResponseTokens, MaxText) \cup ArrayTexts}
    /\ image_exists = FALSE
    /\ shots = 0
    /\ sample_dataset = NoPath
    /\ sample_dataset_exists = FALSE
    /\ examples = 0
    /\ messages = ""
    /\ chat_calls = 0
    /\ leaderboard_file = NoFile
    /\ EvaluateIdle
    /\ ConvertIdle
    /\ updates = <<>>
    /\ index_html = NoFile
    /\ ScriptsIdle
    /\ ConfigIdle
    /\ SiteIdle

\* extract_json_from_llm_response(response_text)
ExtractCall ==
    /\ pc = "extract"
    /\ result' = Returned(ExtractOutcome(response_text[1]))
    /\ pc' = "exit"
    /\ UNCHANGED <<files, leaderboard_file, output_file, eval_work, raised,
                   red_lines, exit_code, image_exists, response_text,
                   gen_inputs, gen_work, conv_vars, aux_vars>>

NextExtract == ExtractCall

SpecExtract == InitExtract /\ [][NextExtract]_vars

\* -------------------------------------------------------- calculate_metrics
\* longest list of true positives and of judgments
MaxJudgments == 3
\* longest list of false positives and of false negatives
MaxFalse == 1

\* a quotient of integers in lowest terms, <<numerator, denominator>>
RECURSIVE GCD(_, _)
GCD(a, b) == IF b = 0 THEN a ELSE GCD(b, a % b)
Rat(n, d) == IF n = 0 THEN <<0, 1>> ELSE <<n \div GCD(n, d), d \div GCD(n, d)>>
Zero == <<0, 1>>
RatAdd(x, y) == Rat(x[1] * y[2] + y[1] * x[2], x[2] * y[2])
RatMul(x, y) == Rat(x[1] * y[1], x[2] * y[2])
RatDiv(x, y) == Rat(x[1] * y[2], x[2] * y[1])

\* the type strings of the edits handed to calculate_metrics
MetricTypes == {"insertion", "Punctuation"}

\* the judgments handed to calculate_metrics: as the tests build them, and
\* with the penalty-adjusted verdict (line difference 2 and 3)
MetricJudgments ==
    { [is_correct |-> TRUE, score |-> 100, is_correct_with_penalty |-> Absent],
      [is_correct |-> FALSE, score |-> 0, is_correct_with_penalty |-> Absent],
      [is_correct |-> TRUE, score |-> 60, is_correct_with_penalty |-> Present(TRUE)],
      [is_correct |-> TRUE, score |-> 10, is_correct_with_penalty |-> Present(FALSE)] }

\* sum(j["score"] for j in js), in hundredths
RECURSIVE SumScores(_)
SumScores(js) == IF js = <<>> THEN 0 ELSE js[1].score + SumScores(Tail(js))

\* j.get("is_correct_with_penalty", j["is_correct"])
JudgedCorrect(j) ==
    IF j.is_correct_with_penalty # Absent THEN j.is_correct_with_penalty[1]
    ELSE j.is_correct

\* mutant: the quotient counts one edit more
Fraction_M18(total_score, n) ==
    IF total_score = 0 THEN Zero ELSE Rat(total_score, One * (n + 1))

\* `if total_score == 0:` 0.0, else total_score / n
Fraction(total_score, n) ==
    IF total_score = 0 THEN Zero ELSE Rat(total_score, One * n)

\* 2 * (precision * recall) / (precision + recall) if the sum is > 0 else 0.0
HarmonicMean(total_score, precision, recall) ==
    IF total_score = 0 THEN Zero
    ELSE IF RatAdd(precision, recall)[1] > 0
         THEN RatDiv(RatMul(<<2, 1>>, RatMul(precision, recall)), RatAdd(precision, recall))
         ELSE Zero

\* the entry of by_type for one edit type
TypeMetrics(tps, fps, fns, js, edit_type) ==
    LET type_judgment_pairs ==
            {k \in 1..Min(Len(tps), Len(js)) : Lower(tps[k][1].type) = edit_type}
        type_fps == {k \in 1..Len(fps) : Lower(fps[k].type) = edit_type}
        type_fns == {k \in 1..Len(fns) : Lower(fns[k].type) = edit_type}
        type_total_score ==
            SumScores([k \in 1..Len(js) |->
                IF k \in type_judgment_pairs THEN js[k] ELSE [score |-> 0]])
        type_precision == Fraction(type_total_score,
                                   Cardinality(type_judgment_pairs) + Cardinality(type_fps))
        type_recall == Fraction(type_total_score,
                                Cardinality(type_judgment_pairs) + Cardinality(type_fns))
    IN  [precision |-> type_precision,
         recall |-> type_recall,
         f1 |-> HarmonicMean(type_total_score, type_precision, type_recall),
         count |-> Cardinality(type_judgment_pairs) + Cardinality(type_fns)]

\* calculate_metrics(true_positives, false_positives, false_negatives,
\* judgments): the dict returned
calculate_metrics(tps, fps, fns, js) ==
    LET total_score == SumScores(js)
        correct_count == Cardinality({k \in 1..Len(js) : JudgedCorrect(js[k])})
        precision == Fraction(total_score, Len(js) + Len(fps))
        recall == Fraction(total_score, Len(js) + Len(fns))
        edit_types == {Lower(tps[k][1].type) : k \in 1..Len(tps)}
                      \cup {Lower(fps[k].type) : k \in 1..Len(fps)}
                      \cup {Lower(fns[k].type) : k \in 1..Len(fns)}
    IN  [precision |-> precision,
         recall |-> recall,
         f1_score |-> HarmonicMean(total_score, precision, recall),
         by_type |-> [t \in edit_types |-> TypeMetrics(tps, fps, fns, js, t)],
         correct_count |-> correct_count,
         total_ground_truth |-> Len(tps) + Len(fns),
         total_predicted |-> Len(tps) + Len(fps)]

\* sum(edit.<field> for edit in result.details), in hundredths
RECURSIVE SumOf(_, _)
SumOf(details, field) ==
    IF details = <<>> THEN 0 ELSE details[1][field] + SumOf(Tail(details), field)

\* mutant: the false-positive and false-negative sums count twice
display_results_M28(details) ==
    LET total_tp == SumOf(details, "tp")
        total_fp == 2 * SumOf(details, "fp")
        total_fn == 2 * SumOf(details, "fn")
        precision == IF total_tp + total_fp > 0 THEN Rat(total_tp, total_tp + total_fp) ELSE Zero
        recall == IF total_tp + total_fn > 0 THEN Rat(total_tp, total_tp + total_fn) ELSE Zero
    IN  [precision |-> precision,
         recall |-> recall,
         f1_score |-> IF RatAdd(precision, recall)[1] > 0
                      THEN RatDiv(RatMul(<<2, 1>>, RatMul(precision, recall)),
                                  RatAdd(precision, recall))
                      ELSE Zero]

\* display_results(result): the summary metrics it computes from the details
display_results(details) ==
    LET total_tp == SumOf(details, "tp")
        total_fp == SumOf(details, "fp")
        total_fn == SumOf(details, "fn")
        precision == IF total_tp + total_fp > 0 THEN Rat(total_tp, total_tp + total_fp) ELSE Zero
        recall == IF total_tp + total_fn > 0 THEN Rat(total_tp, total_tp + total_fn) ELSE Zero
    IN  [precision |-> precision,
         recall |-> recall,
         f1_score |-> IF RatAdd(precision, recall)[1] > 0
                      THEN RatDiv(RatMul(<<2, 1>>, RatMul(precision, recall)),
                                  RatAdd(precision, recall))
                      ELSE Zero]

InitMetrics ==
    /\ command = "calculate_metrics"
    /\ pc = "calculate_metrics"
    /\ true_positives \in SeqsUpTo({<<[type |-> t], [type |-> t]>> : t \in MetricTypes},
                                   MaxJudgments)
    /\ false_positives \in SeqsUpTo({[type |-> t] : t \in MetricTypes}, MaxFalse)
    /\ false_negatives \in SeqsUpTo({[type |-> t] : t \in MetricTypes}, MaxFalse)
    /\ judgments \in SeqsUpTo(MetricJudgments, MaxJudgments)
    /\ ground_truth_file = NoFile
    /\ prediction_file = NoFile
    /\ leaderboard_file = NoFile
    /\ output_file = NoFile
    /\ remaining_true_positives = <<>>
    /\ gt_edits_in_true_positives = <<>>
    /\ i = 1
    /\ in_flight = <<>>
    /\ judge_calls = <<>>
    /\ unparsed = <<>>
    /\ result = NoResult
    /\ raised = ""
    /\ red_lines = 0
    /\ exit_code = None
    /\ OtherCommandsIdle

\* one call of calculate_metrics
MetricsCall ==
    /\ pc = "calculate_metrics"
    /\ result' = Returned(calculate_metrics(true_positives, false_positives,
                                            false_negatives, judgments))
    /\ pc' = "exit"
    /\ UNCHANGED <<files, leaderboard_file, output_file, eval_work, raised,
                   red_lines, exit_code, gen_vars>>

NextMetrics == MetricsCall

SpecMetrics == InitMetrics /\ [][NextMetrics]_vars

\* ------------------------------------------------- build_site_results.py
\* most model directories under predictions/
MaxDirs == 2
\* shot_filter = 2 of main
ShotFilter == 2

\* directory names, as character strings: gpt-4-t, gpt-4, ab-c, G-4
DirNames ==
    { <<"g", "p", "t", "-", "4", "-", "t">>, <<"g", "p", "t", "-", "4">>,
      <<"a", "b", "-", "c">>, <<"G", "-", "4">> }

\* a *_results.json file: one json.load fails on, one whose details is the
\* dict of metrics, one whose details is the list of matches
Unreadable == [kind |-> "unreadable"]
DictDetails(correct) ==
    [kind |-> "dict", correct_count |-> correct, total_ground_truth |-> 2,
     total_predicted |-> 2]
ListDetails == [kind |-> "list"]

\* the result files of results/eval, sorted by file id
ResultFileLists ==
    { <<>>, <<Unreadable>>, <<DictDetails(1)>>, <<DictDetails(2)>>,
      <<ListDetails>>, <<DictDetails(1), DictDetails(2)>> }

\* a model directory: its name, whether it holds a .noinclude file, the
\* shots of its config.json (2 by default), whether results/eval exists,
\* and the result files there
ModelDirs ==
    { md \in [name : DirNames, noinclude : BOOLEAN, shots : {0, ShotFilter},
              results_dir : BOOLEAN, result_files : ResultFileLists] :
        ~md.results_dir => md.result_files = <<>> }

LowerLetters == {"a", "b", "c", "g", "p", "t"}
Digits == {"4"}
UpperChar(c) == CASE c = "a" -> "A" [] c = "b" -> "B" [] c = "c" -> "C"
                  [] c = "g" -> "G" [] c = "p" -> "P" [] c = "t" -> "T"
                  [] OTHER -> c
UpperStr(str) == [k \in DOMAIN str |-> UpperChar(str[k])]

\* str.split(sep)
RECURSIVE Split(_, _)
Split(str, sep) ==
    IF IndexSet(str, sep, 1) = {} THEN <<str>>
    ELSE LET k == SetMin(IndexSet(str, sep, 1)) IN
         <<SubSeq(str, 1, k - 1)>> \o Split(SubSeq(str, k + 1, Len(str)), sep)

\* "".join(parts) and " ".join(parts)
RECURSIVE Join(_, _)
Join(sep, parts) ==
    IF parts = <<>> THEN <<>>
    ELSE IF Len(parts) = 1 THEN parts[1]
    ELSE parts[1] \o sep \o Join(sep, Tail(parts))

\* str.capitalize()
Capitalize(word) ==
    [k \in DOMAIN word |-> IF k = 1 THEN UpperChar(word[k]) ELSE LowerChar(word[k])]

\* model_name.replace("-", " ").split(): the words, none of them empty
Words(str) == SelectSeq(Split(str, "-"), LAMBDA w : w # <<>>)

\* lines 148-158: the name shown for a model directory
DisplayName(model_name) ==
    IF model_name # <<>>
       /\ \A k \in DOMAIN model_name : model_name[k] \in LowerLetters \cup Digits \cup {"-"}
    THEN IF Len(model_name) >= 3 /\ SubSeq(model_name, 1, 3) = <<"g", "p", "t">>
         THEN LET parts == Split(model_name, "-") IN
              IF Len(parts) > 1
              THEN UpperStr(parts[1]) \o <<"-">> \o Join(<<>>, Tail(parts))
              ELSE model_name
         ELSE Join(<<" ">>, [k \in DOMAIN Words(model_name) |->
                                Capitalize(Words(model_name)[k])])
    ELSE model_name

\* file_results: the result files that load
FileResults(md) == SelectSeq(md.result_files, LAMBDA f : f.kind # "unreadable")

RECURSIVE SumField(_, _)
SumField(frs, field) ==
    IF frs = <<>> THEN 0 ELSE frs[1][field] + SumField(Tail(frs), field)

\* the directory reaches the aggregation: shots pass the filter, results/eval
\* exists, it has result files, and one of them loads
Collected(md, shot_filter) ==
    /\ md.shots = shot_filter
    /\ md.results_dir
    /\ FileResults(md) # <<>>

\* fr.get("details", {}).get(...) on a details that is a list
RaisesAttributeError(md) ==
    \E k \in 1..Len(FileResults(md)) : FileResults(md)[k].kind = "list"

\* lines 160-219: the entry of one model
ModelResult(md) ==
    LET total_gt == SumField(FileResults(md), "total_ground_truth")
        total_pred == SumField(FileResults(md), "total_predicted")
        total_correct == SumField(FileResults(md), "correct_count")
        precision == IF total_pred > 0 THEN Rat(total_correct, total_pred) ELSE Zero
        recall == IF total_gt > 0 THEN Rat(total_correct, total_gt) ELSE Zero
    IN  [model_name |-> DisplayName(md.name),
         precision |-> precision,
         recall |-> recall,
         f1_score |-> IF RatAdd(precision, recall)[1] > 0
                      THEN RatDiv(RatMul(<<2, 1>>, RatMul(precision, recall)),
                                  RatAdd(precision, recall))
                      ELSE Zero,
         shots |-> md.shots,
         correct_count |-> total_correct,
         total_ground_truth |-> total_gt,
         total_predicted |-> total_pred,
         file_results |-> Len(FileResults(md))]

\* the loop over the model directories from directory k on
RECURSIVE CollectLoop(_, _, _)
CollectLoop(dirs, shot_filter, k) ==
    IF k > Len(dirs) THEN [raised |-> "", results |-> <<>>]
    ELSE IF ~Collected(dirs[k], shot_filter) THEN CollectLoop(dirs, shot_filter, k + 1)
    ELSE IF RaisesAttributeError(dirs[k]) THEN [raised |-> "AttributeError", results |-> <<>>]
    ELSE LET rest == CollectLoop(dirs, shot_filter, k + 1) IN
         [raised |-> rest.raised,
          results |-> IF rest.raised # "" THEN <<>>
                      ELSE <<ModelResult(dirs[k])>> \o rest.results]

RatLess(x, y) == x[1] * y[2] < y[1] * x[2]

\* all_model_results.sort(key=f1_score, reverse=True): stable, descending
RECURSIVE SortResultsByF1(_)
SortResultsByF1(rs) ==
    IF rs = <<>> THEN <<>>
    ELSE LET first == SetMin({k \in 1..Len(rs) :
                          \A j \in 1..Len(rs) : ~RatLess(rs[k].f1_score, rs[j].f1_score)})
         IN  <<rs[first]>> \o SortResultsByF1(RemoveAt(rs, first))

\* collect_model_results(predictions_dir, shot_filter)
collect_model_results(dirs, shot_filter) ==
    LET out == CollectLoop(dirs, shot_filter, 1) IN
    [raised |-> out.raised, results |-> SortResultsByF1(out.results)]

InitSite ==
    /\ command = "build_site_results"
    /\ pc = "build_site_results"
    /\ predictions_dir \in
         { ds \in SeqsUpTo(ModelDirs, MaxDirs) :
             \A a, b \in 1..Len(ds) : a # b => ds[a].name # ds[b].name }
    /\ site_results = NoFile
    /\ leaderboard_file = NoFile
    /\ EvaluateIdle
    /\ GenerateIdle
    /\ ConvertIdle
    /\ updates = <<>>
    /\ index_html = NoFile
    /\ ScriptsIdle
    /\ ConfigIdle

\* main: collect, warn and return when nothing was found, else write
\* docs/results.json; an exception ends the script with status 1
SiteBuild ==
    /\ pc = "build_site_results"
    /\ LET out == collect_model_results(predictions_dir, ShotFilter) IN
       /\ raised' = out.raised
       /\ exit_code' = IF out.raised # "" THEN 1 ELSE 0
       /\ site_results' = IF out.raised = "" /\ out.results # <<>>
                          THEN File(out.results) ELSE site_results
    /\ pc' = "exit"
    /\ UNCHANGED <<files, leaderboard_file, output_file, eval_work, result,
                   red_lines, image_exists, response_text, gen_inputs, gen_work,
                   conv_vars, updates, config_manager, load_history,
                   predictions_dir, index_html, migrator_vars, auditor_vars>>

NextSite == SiteBuild

SpecSite == InitSite /\ [][NextSite]_vars

\* ------------------------------------------------ reorganize_model_directory
\* most runs of the migrator on one model directory, and the days they fall on
MaxRuns == 3

\* file names, as their parts: <id> _ prediction|results .json
PredictionNames == {<<id, "_", "prediction", ".json">> : id \in {"001", "003"}}
ResultNames == {<<id, "_", "results", ".json">> : id \in {"001", "003"}}
OtherNames == {<<"notes", ".txt">>}

\* Path.glob("*_<kind>.json") on a file name
Glob(name, kind) ==
    /\ Len(name) >= 3
    /\ SubSeq(name, Len(name) - 2, Len(name)) = <<"_", kind, ".json">>

\* file.stem.split("_")[0]: the parts of the stem before its first "_"
FileId(name) ==
    LET stem == SubSeq(name, 1, Len(name) - 1)
        cut == {k \in 1..Len(stem) : stem[k] = "_"}
    IN  IF cut = {} THEN stem ELSE SubSeq(stem, 1, SetMin(cut) - 1)

\* `file_id in ["001", "002"]`
IsSampleId(name) == FileId(name) \in {<<"001">>, <<"002">>}

\* the files of a directory that may be absent
FilesOf(dir) == IF dir = Absent THEN {} ELSE dir[1]

\* mutant: the prediction files are copied, the old ones stay
reorganize_model_directory_M21(tree, today) ==
    LET old_predictions == IF tree.predictions = Absent
                           THEN [eval |-> Absent, sample |-> Absent]
                           ELSE tree.predictions[1]
        moved_eval == {f \in FilesOf(tree.eval) : Glob(f, "prediction")}
        moved_sample == {f \in FilesOf(tree.sample) : Glob(f, "prediction")}
        moved_results ==
            IF tree.results = Absent THEN {}
            ELSE {f \in tree.results[1].top : Glob(f, "results")}
    IN  [tree |->
            [eval |-> tree.eval,
             sample |-> tree.sample,
             predictions |-> Present(
                [eval |-> IF tree.eval = Absent THEN old_predictions.eval
                          ELSE Present(FilesOf(old_predictions.eval) \cup moved_eval),
                 sample |-> IF tree.sample = Absent THEN old_predictions.sample
                            ELSE Present(FilesOf(old_predictions.sample) \cup moved_sample)]),
             results |-> IF tree.results = Absent THEN Absent
                         ELSE Present(
                            [top |-> tree.results[1].top \ moved_results,
                             eval |-> Present(FilesOf(tree.results[1].eval) \cup
                                        {f \in moved_results : ~IsSampleId(f)}),
                             sample |-> Present(FilesOf(tree.results[1].sample) \cup
                                        {f \in moved_results : IsSampleId(f)})]),
             config |-> Present(today)],
         moved |-> Cardinality(moved_eval) + Cardinality(moved_sample)
                   + Cardinality(moved_results)]

\* reorganize_model_directory(model_dir) run on the day `today`: the tree it
\* leaves and the number of files it moved
reorganize_model_directory(tree, today) ==
    LET old_predictions == IF tree.predictions = Absent
                           THEN [eval |-> Absent, sample |-> Absent]
                           ELSE tree.predictions[1]
        moved_eval == {f \in FilesOf(tree.eval) : Glob(f, "prediction")}
        moved_sample == {f \in FilesOf(tree.sample) : Glob(f, "prediction")}
        moved_results ==
            IF tree.results = Absent THEN {}
            ELSE {f \in tree.results[1].top : Glob(f, "results")}
        \* the old directory after the moves, removed when it is empty
        Left(dir, moved) ==
            IF dir = Absent \/ FilesOf(dir) \ moved = {} THEN Absent
            ELSE Present(FilesOf(dir) \ moved)
    IN  [tree |->
            [eval |-> Left(tree.eval, moved_eval),
             sample |-> Left(tree.sample, moved_sample),
             predictions |-> Present(
                [eval |-> IF tree.eval = Absent THEN old_predictions.eval
                          ELSE Present(FilesOf(old_predictions.eval) \cup moved_eval),
                 sample |-> IF tree.sample = Absent THEN old_predictions.sample
                            ELSE Present(FilesOf(old_predictions.sample) \cup moved_sample)]),
             results |-> IF tree.results = Absent THEN Absent
                         ELSE Present(
                            [top |-> tree.results[1].top \ moved_results,
                             eval |-> Present(FilesOf(tree.results[1].eval) \cup
                                        {f \in moved_results : ~IsSampleId(f)}),
                             sample |-> Present(FilesOf(tree.results[1].sample) \cup
                                        {f \in moved_results : IsSampleId(f)})]),
             config |-> Present(today)],
         moved |-> Cardinality(moved_eval) + Cardinality(moved_sample)
                   + Cardinality(moved_results)]

\* a directory: absent, or holding some of these files
Dirs(names) == {Absent} \cup {Present(fs) : fs \in SUBSET names}

\* model directories in the old layout, the new one, or between the two; a
\* result file already in a subdirectory is in the one of its id
ModelTrees ==
    { t \in [eval : Dirs(PredictionNames \cup OtherNames),
             sample : Dirs(PredictionNames),
             predictions : {Absent} \cup
                 {Present(pr) : pr \in [eval : Dirs(PredictionNames),
                                      sample : {Absent, Present({})}]},
             results : {Absent} \cup
                 {Present(rs) : rs \in
                     [top : SUBSET ResultNames,
                      eval : Dirs({f \in ResultNames : ~IsSampleId(f)}),
                      sample : Dirs({f \in ResultNames : IsSampleId(f)})]},
             config : {Absent, Present(0)}] : TRUE }

InitReorganize ==
    /\ command = "reorganize_directories"
    /\ pc = "reorganize_directories"
    /\ model_dir \in ModelTrees
    /\ moved_files = <<>>
    /\ model_stats = <<>>
    /\ audit_args = <<>>
    /\ report = <<>>
    /\ leaderboard_file = NoFile
    /\ index_html = NoFile
    /\ updates = <<>>
    /\ EvaluateIdle
    /\ GenerateIdle
    /\ ConvertIdle
    /\ ConfigIdle
    /\ SiteIdle

\* one run of reorganize_model_directory on the model directory, on the day
\* of the run before or a later one
Reorganize ==
    /\ pc = "reorganize_directories"
    /\ Len(moved_files) < MaxRuns
    /\ \E today \in 1..MaxRuns :
        /\ moved_files # <<>> => today >= moved_files[Len(moved_files)].date
        /\ LET out == reorganize_model_directory(model_dir, today) IN
            /\ model_dir' = out.tree
            /\ moved_files' = Append(moved_files, [moved |-> out.moved, date |-> today])
    /\ UNCHANGED <<files, leaderboard_file, output_file, pc, eval_work, result,
                   raised, red_lines, exit_code, image_exists, response_text,
                   gen_inputs, gen_work, conv_vars, updates, config_manager,
                   load_history, site_vars, index_html, auditor_vars>>

NextReorganize == Reorganize

SpecReorganize == InitReorganize /\ [][NextReorganize]_vars

\* --------------------------------------------------------- check_predictions
\* most questions of a model, and most runs of one question
MaxQuestions == 3
MaxRunsPerQuestion == 4

\* --target-runs, default
DefaultTargetRuns == 3

\* the run ids of a question with n prediction files, sorted
RunIds(n) == [k \in 1..n |-> k]

\* the ModelStats analyze_predictions gathers for one model: question ids
\* (the number a three-digit id stands for) with their run ids, and the
\* (question, run) pairs that have no results file
ModelStatsSet ==
    UNION { { [question_runs |-> qr, missing_evaluations |-> me] :
                qr \in [Q -> {RunIds(n) : n \in 1..MaxRunsPerQuestion}],
                me \in {<<>>} \cup {<<<<q, 1>>>> : q \in Q} } :
            Q \in SUBSET (1..MaxQuestions) }

\* {q: len(runs) for q, runs in stats.question_runs.items()}
RunCounts(stats) == [q \in DOMAIN stats.question_runs |-> Len(stats.question_runs[q])]

\* find_anomalies(stats, target_runs), target_runs being None in standard mode
find_anomalies(stats, target_runs) ==
    IF DOMAIN stats.question_runs = {}
    THEN [has_anomalies |-> TRUE, missing_questions |-> {}, run_counts |-> <<>>]
    ELSE LET all_questions == DOMAIN stats.question_runs
             expected_questions == SetMin(all_questions)..SetMax(all_questions)
             missing_questions == expected_questions \ all_questions
             run_counts == RunCounts(stats)
             count_values == {run_counts[q] : q \in all_questions}
         IN  [has_anomalies |->
                  \/ missing_questions # {}
                  \/ Cardinality(count_values) > 1
                  \/ target_runs # None /\ \E count \in count_values : count < target_runs,
              missing_questions |-> missing_questions,
              run_counts |-> run_counts]

\* print_report: the status of the model in the summary table
Status(stats, target_runs) ==
    IF DOMAIN stats.question_runs = {} THEN "NO DATA"
    ELSE IF find_anomalies(stats, target_runs).has_anomalies
            \/ stats.missing_evaluations # <<>>
         THEN "ISSUES"
    ELSE "OK"

\* max(set(count_values), key=count_values.count): the count most questions
\* have; among counts equally frequent the set yields the smallest first
MostCommonCount(run_counts) ==
    LET times(c) == Cardinality({q \in DOMAIN run_counts : run_counts[q] = c})
        count_values == {run_counts[q] : q \in DOMAIN run_counts}
    IN  SetMin({c \in count_values : \A e \in count_values : times(c) >= times(e)})

\* find_model_unbalanced_questions(stats, target_runs, strict): question id ->
\* number of additional runs needed
find_model_unbalanced_questions(stats, target_runs, strict) ==
    IF DOMAIN stats.question_runs = {} THEN <<>>
    ELSE LET run_counts == RunCounts(stats)
             target_count == IF strict THEN target_runs ELSE MostCommonCount(run_counts)
         IN  [q \in {q \in DOMAIN run_counts : run_counts[q] < target_count} |->
                 target_count - run_counts[q]]

\* generate_prediction_commands for the model: the question ids its command
\* names after --question-ids, or no command
generate_prediction_commands(stats, target_runs, strict) ==
    LET needed_runs == find_model_unbalanced_questions(stats, target_runs, strict) IN
    IF DOMAIN needed_runs # {} THEN Present(DOMAIN needed_runs) ELSE Absent

InitAudit ==
    /\ command = "check_predictions"
    /\ pc = "check_predictions"
    /\ model_stats \in ModelStatsSet
    /\ audit_args \in [strict : BOOLEAN,
                       target_runs : {DefaultTargetRuns - 1, DefaultTargetRuns},
                       suggest_fixes : BOOLEAN]
    /\ report = <<>>
    /\ model_dir = <<>>
    /\ moved_files = <<>>
    /\ leaderboard_file = NoFile
    /\ index_html = NoFile
    /\ updates = <<>>
    /\ EvaluateIdle
    /\ GenerateIdle
    /\ ConvertIdle
    /\ ConfigIdle
    /\ SiteIdle

\* main: print_report, with the target in strict mode only, then
\* print_fix_suggestions unless --no-suggest-fixes
AuditMain ==
    /\ pc = "check_predictions"
    /\ report' = Present(
          [status |-> Status(model_stats,
                             IF audit_args.strict THEN audit_args.target_runs ELSE None),
           needed_runs |->
               IF audit_args.suggest_fixes
               THEN find_model_unbalanced_questions(model_stats, audit_args.target_runs,
                                                    audit_args.strict)
               ELSE <<>>,
           prediction_command |->
               IF audit_args.suggest_fixes
               THEN generate_prediction_commands(model_stats, audit_args.target_runs,
                                                 audit_args.strict)
               ELSE Absent])
    /\ pc' = "exit"
    /\ UNCHANGED <<files, leaderboard_file, output_file, eval_work, result,
                   raised, red_lines, exit_code, image_exists, response_text,
                   gen_inputs, gen_work, conv_vars, updates, config_manager,
                   load_history, site_vars, index_html, migrator_vars,
                   model_stats, audit_args>>

NextAudit == AuditMain

SpecAudit == InitAudit /\ [][NextAudit]_vars

\* -------------------------------------------------------------- convert run
\* most annotation files of the input directory that validate and have
\* their image
MaxAnnotations == 2

InitConvert ==
    /\ command = "convert"
    /\ pc = "convert"
    /\ input_dir \in {"absent", "file", "dir"}
    /\ output_dir \in BOOLEAN
    /\ dataset = NoFile
    /\ leaderboard_file = NoFile
    /\ EvaluateIdle
    /\ GenerateIdle
    /\ updates = <<>>
    /\ index_html = NoFile
    /\ ScriptsIdle
    /\ ConfigIdle
    /\ SiteIdle

conv_frame == <<files, leaderboard_file, output_file, eval_work, result,
                image_exists, response_text, gen_inputs, gen_work, aux_vars>>

\* mutant: the output directory is made before the input directory is looked at
ConvertValidate_M16 ==
    /\ pc = "convert"
    /\ output_dir' = TRUE
    /\ IF input_dir = "dir"
       THEN pc' = "convert_create" /\ UNCHANGED <<raised, red_lines, exit_code>>
       ELSE ExitInsideTry
    /\ UNCHANGED <<conv_frame, input_dir, dataset>>

\* `if not input_dir.exists() or not input_dir.is_dir():` red "Input
\* directory not found" line, typer.Exit(1)
ConvertValidate ==
    /\ pc = "convert"
    /\ IF input_dir = "dir"
       THEN pc' = "convert_mkdir" /\ UNCHANGED <<raised, red_lines, exit_code>>
       ELSE ExitInsideTry
    /\ UNCHANGED <<conv_frame, conv_vars>>

\* output_dir.mkdir(parents=True, exist_ok=True): the directory exists
\* afterwards, or the call fails (a file in the way, no permission)
ConvertMkdir ==
    /\ pc = "convert_mkdir"
    /\ \/ /\ output_dir' = TRUE
          /\ pc' = "convert_create"
          /\ UNCHANGED <<raised, red_lines, exit_code>>
       \/ /\ ~output_dir
          /\ Fail("OSError")
          /\ UNCHANGED output_dir
    /\ UNCHANGED <<conv_frame, input_dir, dataset>>

\* create_hf_dataset: the annotations that validate and have their image
\* become the entries of the dataset saved under the output directory; an
\* exception of the dataset library reaches the catch-all
ConvertCreate ==
    /\ pc = "convert_create"
    /\ \/ \E entries \in 0..MaxAnnotations :
            /\ dataset' = File(entries)
            /\ exit_code' = 0
            /\ pc' = "exit"
            /\ UNCHANGED <<raised, red_lines>>
       \/ Fail("Exception") /\ UNCHANGED dataset
    /\ UNCHANGED <<conv_frame, input_dir, output_dir>>

NextConvert ==
    \/ ConvertValidate
    \/ ConvertMkdir
    \/ ConvertCreate

\* ------------------------------------------------- the three CLI commands
InitCli ==
    \/ Init
    \/ InitGenerate
    \/ InitConvert

NextCli ==
    \/ Next
    \/ NextGenerate
    \/ NextConvert

SpecCli == InitCli /\ [][NextCli]_vars

\* ------------------------------------------------------------ ConfigManager
\* A model identifier is the sequence of its parts between colons:
\* <<"gpt-4o">> is "gpt-4o" and <<"local", "gpt-4o">> is "local:gpt-4o".
BaseId == <<"gpt-4o">>
OverlayId == <<"local", "gpt-4o">>

\* longest sequence of configuration entries loaded
MaxLoads == 3

RequiredFields == {"endpoint", "model_name", "logical_name"}
\* an api_key of the form ${VAR}
Placeholder == "${VAR}"

\* the tables of a base file: with or without api_key, with or without
\* endpoint (a table without a required field raises KeyError)
BaseEntries ==
    { e \in UNION {[S -> {"v1"}] : S \in SUBSET (RequiredFields \cup {"api_key"})} :
        {"model_name", "logical_name"} \subseteq DOMAIN e }
\* the tables of an overlay file: any subset of the fields
OverlayEntries ==
    { e \in UNION {[S -> {"v2", Placeholder}] : S \in SUBSET (RequiredFields \cup {"api_key"})} :
        \A f \in DOMAIN e : e[f] = Placeholder => f = "api_key" }

\* model_config[f]: the value written in the table
ValueOf(model_config, f) ==
    model_config[f]

\* mutant: an entry without api_key gets the empty key
ApiKeyOf_M14(model_config, existing_config, environ) ==
    IF "api_key" \in DOMAIN model_config
    THEN IF ValueOf(model_config, "api_key") = Placeholder THEN environ
         ELSE ValueOf(model_config, "api_key")
    ELSE ""

\* "Process API key": ${VAR} is os.environ.get(VAR, ""); an entry without
\* api_key takes the existing one of an override, else ""
ApiKeyOf(model_config, existing_config, environ) ==
    IF "api_key" \in DOMAIN model_config
    THEN IF ValueOf(model_config, "api_key") = Placeholder THEN environ
         ELSE ValueOf(model_config, "api_key")
    ELSE IF existing_config # <<>> THEN existing_config[1].api_key ELSE ""

\* model_config.get(f, existing_config.f)
FieldOr(model_config, f, default) ==
    IF f \in DOMAIN model_config THEN ValueOf(model_config, f) ELSE default

\* the body of the loop of _load_config for one table: the new _models and
\* the exception raised
LoadEntry(models, environ, model_id, model_config) ==
    LET original_id == Tail(model_id)
        is_override == Len(model_id) > 1 /\ original_id \in DOMAIN models
        existing_config == IF is_override THEN <<models[original_id]>> ELSE <<>>
        stored_id == IF is_override THEN original_id ELSE model_id
        api_key == ApiKeyOf(model_config, existing_config, environ)
    IN  IF ~is_override /\ ~(RequiredFields \subseteq DOMAIN model_config)
        THEN [models |-> models, raised |-> "KeyError"]
        ELSE LET old == IF is_override THEN existing_config[1]
                        ELSE [endpoint |-> "", model_name |-> "", logical_name |-> ""]
                 new == [endpoint |-> FieldOr(model_config, "endpoint", old.endpoint),
                         model_name |-> FieldOr(model_config, "model_name", old.model_name),
                         api_key |-> api_key,
                         logical_name |-> FieldOr(model_config, "logical_name", old.logical_name)]
             IN  [models |-> [id \in DOMAIN models \cup {stored_id} |->
                                IF id = stored_id THEN new ELSE models[id]],
                  raised |-> ""]

\* ConfigManager.get_model: the ModelConfig, or KeyError
get_model(models, model_id) ==
    IF model_id \notin DOMAIN models THEN [raised |-> "KeyError", config |-> <<>>]
    ELSE [raised |-> "", config |-> <<models[model_id]>>]

InitConfig ==
    /\ command = "config"
    /\ pc = "config"
    /\ config_manager \in [models : {<<>>}, environ : {"", "secret"}]
    /\ load_history = <<>>
    /\ SiteIdle
    /\ leaderboard_file = NoFile
    /\ updates = <<>>
    /\ index_html = NoFile
    /\ ScriptsIdle
    /\ EvaluateIdle
    /\ GenerateIdle
    /\ ConvertIdle

config_frame == <<files, leaderboard_file, output_file, pc, eval_work, red_lines,
                  exit_code, image_exists, response_text, gen_inputs, gen_work,
                  conv_vars, updates, site_vars, index_html, migrator_vars,
                  auditor_vars>>

\* _load_config on a file holding one table
ConfigLoad ==
    /\ pc = "config"
    /\ Len(load_history) < MaxLoads
    /\ \E model_id \in {BaseId, OverlayId} :
       \E model_config \in IF model_id = BaseId THEN BaseEntries ELSE OverlayEntries :
        LET out == LoadEntry(config_manager.models, config_manager.environ,
                             model_id, model_config)
        IN  /\ config_manager' = [config_manager EXCEPT !.models = out.models]
            /\ load_history' = Append(load_history, [model_id |-> model_id, model_config |-> model_config])
            /\ raised' = out.raised
            /\ result' = NoResult
    /\ UNCHANGED config_frame

\* get_model("gpt-4o")
ConfigGetModel ==
    /\ pc = "config"
    /\ result = NoResult
    /\ LET out == get_model(config_manager.models, BaseId) IN
        /\ raised' = out.raised
        /\ result' = IF out.raised = "" THEN Returned(out.config[1]) ELSE NoResult
    /\ UNCHANGED <<config_frame, config_manager, load_history>>

NextConfig ==
    \/ ConfigLoad
    \/ ConfigGetModel

SpecConfig == InitConfig /\ [][NextConfig]_vars

\* =================================================================== claims
\* shorthands for the claims
GT == Content(ground_truth_file)
Pred == Content(prediction_file)
HasResult == result # NoResult
DetailsSeq == Details(result)
\* the state match_edits returns into: nothing judged or dissolved yet
JustMatched == pc = "first_pass" /\ judge_calls = <<>>
\* the positions of the line-numbered predictions
ValidPreds == {p \in 1..Len(Pred) : Pred[p].line_number # None}
IsMatched(d) == d.observed_edit_num # None /\ d.expected_edit_num # None
IsPureFP(d) == d.tp = 0 /\ d.fp = One /\ d.fn = 0 /\ d.expected_edit_num = None
IsPureFN(d) == d.tp = 0 /\ d.fp = 0 /\ d.fn = One /\ d.observed_edit_num = None
SeqRange(s) == {s[k] : k \in 1..Len(s)}

\* C1: every EditMatch of a returned EvaluationResult - surviving pair, false
\* positive or false negative - has tp + fp + fn equal to 1
C1_ScoreComponents ==
    HasResult => \A k \in 1..Len(DetailsSeq) :
        DetailsSeq[k].tp + DetailsSeq[k].fp + DetailsSeq[k].fn = One

\* a result holding a line-penalised surviving pair, a false positive and a
\* false negative
C1_Witness ==
    /\ HasResult
    /\ \E k \in 1..Len(DetailsSeq) :
            IsMatched(DetailsSeq[k]) /\ DetailsSeq[k].tp \in 1..(One - 1)
    /\ \E k \in 1..Len(DetailsSeq) : IsPureFP(DetailsSeq[k])
    /\ \E k \in 1..Len(DetailsSeq) : IsPureFN(DetailsSeq[k])

\* the match predicate as the claim words it
Acceptable(g, p) ==
    /\ Lower(g.type) = Lower(p.type)
    /\ g.line_number - p.line_number \in -3..3
    /\ \/ IsSubstring(g.original_text, p.original_text)
       \/ IsSubstring(p.original_text, g.original_text)
       \/ IsSubstring(g.corrected_text, p.corrected_text)
       \/ IsSubstring(p.corrected_text, g.corrected_text)

\* the predictions consumed by the ground-truth edits before g
ConsumedBefore(pairs, g) == {pr[2] : pr \in {q \in SeqRange(pairs) : q[1] < g}}

\* C2: match_edits is first-fit: each ground-truth edit, in list order, is
\* paired with the earliest unconsumed line-numbered prediction satisfying
\* the match predicate; it is unpaired only if no unconsumed prediction
\* satisfies it; a paired prediction is unavailable to later edits
C2_FirstFit ==
    JustMatched =>
        /\ \A a, b \in 1..Len(true_positives) :
                a < b => /\ true_positives[a][1] < true_positives[b][1]
                         /\ true_positives[a][2] # true_positives[b][2]
        /\ \A g \in 1..Len(GT) :
            LET pool == ValidPreds \ ConsumedBefore(true_positives, g)
                mine == {pr \in SeqRange(true_positives) : pr[1] = g}
            IN  IF \E p \in pool : Acceptable(GT[g], Pred[p])
                THEN \E pr \in mine :
                        /\ pr[2] \in pool
                        /\ Acceptable(GT[g], Pred[pr[2]])
                        /\ \A q \in pool : q < pr[2] => ~Acceptable(GT[g], Pred[q])
                ELSE mine = {} /\ g \in SeqRange(false_negatives)

\* first-fit took a prediction one or more lines off although a later
\* unconsumed prediction matches on the exact line
C2_Witness ==
    /\ JustMatched
    /\ \E pr \in SeqRange(true_positives) :
        /\ GT[pr[1]].line_number # Pred[pr[2]].line_number
        /\ \E q \in ValidPreds \ ConsumedBefore(true_positives, pr[1]) :
            /\ q > pr[2]
            /\ Acceptable(GT[pr[1]], Pred[q])
            /\ GT[pr[1]].line_number = Pred[q].line_number

\* the line penalty by line difference, as the claims tabulate it
PenaltyOfDiff(d) ==
    CASE d = 0 -> 0 [] d = 1 -> 10 [] d = 2 -> 40 [] d = 3 -> 90 [] OTHER -> One

EntriesOfPair(g, p) ==
    {k \in 1..Len(DetailsSeq) : DetailsSeq[k].gt_ref = g /\ DetailsSeq[k].pred_ref = p}
EntriesOfPred(p) == {k \in 1..Len(DetailsSeq) : DetailsSeq[k].pred_ref = p}
EntriesOfGT(g) == {k \in 1..Len(DetailsSeq) : DetailsSeq[k].gt_ref = g}
\* the judge said correct and the line penalty is below 1.0
Survives(pr) ==
    /\ "T" \in judgments[pr].members
    /\ PenaltyOfDiff(Abs(GT[pr[1]].line_number - Pred[pr[2]].line_number)) < One

\* C3: a candidate pair yields a matched EditMatch iff the judge's is_correct
\* is true and the line penalty is below 1.0; otherwise it yields no matched
\* entry, exactly one pure false positive for its prediction and exactly one
\* pure false negative for its ground-truth edit
C3_PairOutcome ==
    HasResult => \A pr \in SeqRange(true_positives) :
        IF Survives(pr)
        THEN /\ Cardinality(EntriesOfPair(pr[1], pr[2])) = 1
             /\ \A k \in EntriesOfPair(pr[1], pr[2]) : IsMatched(DetailsSeq[k])
             /\ EntriesOfPred(pr[2]) = EntriesOfPair(pr[1], pr[2])
             /\ EntriesOfGT(pr[1]) = EntriesOfPair(pr[1], pr[2])
        ELSE /\ EntriesOfPair(pr[1], pr[2]) = {}
             /\ Cardinality(EntriesOfPred(pr[2])) = 1
             /\ \A k \in EntriesOfPred(pr[2]) : IsPureFP(DetailsSeq[k])
             /\ Cardinality(EntriesOfGT(pr[1])) = 1
             /\ \A k \in EntriesOfGT(pr[1]) : IsPureFN(DetailsSeq[k])

\* a result in which one candidate pair survived and another was dissolved
C3_Witness ==
    /\ HasResult
    /\ \E pr \in SeqRange(true_positives) : Survives(pr)
    /\ \E pr \in SeqRange(true_positives) : ~Survives(pr)

\* evaluate has ended, by returning or by raising
EvaluateEnded ==
    \/ pc \in {"save", "leaderboard"}
    \/ pc = "exit" /\ ~(result = NoResult /\ raised \in {"Exit", "KeyError"})

ExactlyOneEntryEach ==
    /\ \A p \in ValidPreds : Cardinality(EntriesOfPred(p)) = 1
    /\ \A g \in 1..Len(GT) : Cardinality(EntriesOfGT(g)) = 1
    /\ \A k \in 1..Len(DetailsSeq) :
            DetailsSeq[k].pred_ref # None \/ DetailsSeq[k].gt_ref # None

\* C4: for files that validate as EditAnnotation and judge replies that
\* parse, evaluate returns an EvaluationResult with exactly one entry per
\* surviving pair, per unmatched line-numbered prediction and per unmatched
\* ground-truth edit
C4_EvaluateCompletes ==
    (EvaluateEnded /\ raised \notin {"JSONDecodeError", "APIError"})
        => (HasResult /\ ExactlyOneEntryEach)

\* C5: a non-absent observed_edit_num is the (0-based) position of the
\* predicted edit among the line-numbered predictions and a non-absent
\* expected_edit_num the position of the ground-truth edit in the
\* ground-truth list
C5_EditNumsArePositions ==
    HasResult => \A k \in 1..Len(DetailsSeq) :
        LET d == DetailsSeq[k] IN
        /\ d.observed_edit_num # None =>
                d.observed_edit_num = Cardinality({q \in ValidPreds : q < d.pred_ref})
        /\ d.expected_edit_num # None => d.expected_edit_num = d.gt_ref - 1

\* the k-th smallest element of a set of numbers
KthOf(S, k) == CHOOSE x \in S : Cardinality({y \in S : y < x}) = k - 1
\* the prediction list with the edits lacking a line number removed
PredWithLines == [k \in 1..Cardinality(ValidPreds) |-> Pred[KthOf(ValidPreds, k)]]

\* C6: a prediction without line_number is in no candidate pair, not among
\* the false positives, in no entry of the result, and the outcome of
\* match_edits is the one obtained on the prediction list without it
C6_NoLineNumberIgnored ==
    /\ JustMatched =>
        LET m == match_edits(GT, PredWithLines) IN
        /\ \A pr \in SeqRange(true_positives) : pr[2] \in ValidPreds
        /\ SeqRange(false_positives) \subseteq ValidPreds
        /\ true_positives = [k \in 1..Len(m.true_positives) |->
               <<m.true_positives[k][1], KthOf(ValidPreds, m.true_positives[k][2])>>]
        /\ false_positives = [k \in 1..Len(m.false_positives) |->
               KthOf(ValidPreds, m.false_positives[k])]
        /\ false_negatives = m.false_negatives
    /\ HasResult => \A k \in 1..Len(DetailsSeq) :
            DetailsSeq[k].pred_ref \in ValidPreds \cup {None}

\* match_edits has paired a ground-truth edit while the prediction list holds
\* an edit without line number that agrees with it in type and texts
C6_Witness ==
    /\ JustMatched
    /\ true_positives # <<>>
    /\ \E p \in 1..Len(Pred) : \E g \in 1..Len(GT) :
            /\ Pred[p].line_number = None
            /\ Lower(Pred[p].type) = Lower(GT[g].type)
            /\ Pred[p].original_text = GT[g].original_text

\* C7: the judge is called once per candidate pair, in candidate order, never
\* for anything else, one call at a time; when evaluate returns the calls
\* are exactly the candidate pairs
C7_JudgeCalls ==
    /\ Len(judge_calls) <= Len(true_positives)
    /\ \A k \in 1..Len(judge_calls) : judge_calls[k] = true_positives[k]
    /\ HasResult => Len(judge_calls) = Len(true_positives)
    /\ Cardinality(DOMAIN judgments) <= Len(judge_calls)
    /\ Len(judge_calls) <= Cardinality(DOMAIN judgments) + 1
    /\ in_flight # <<>> =>
            /\ in_flight = judge_calls[Len(judge_calls)]
            /\ Cardinality(DOMAIN judgments) = Len(judge_calls) - 1
            /\ \A k \in 1..(Len(judge_calls) - 1) : judge_calls[k] \in DOMAIN judgments

\* evaluate returned after two judge calls
C7_Witness == HasResult /\ Len(judge_calls) = 2

\* C8: the line penalty is 0, 0.1, 0.4, 0.9 at differences 0, 1, 2, 3 and 1.0
\* from 4 on, whatever the sign of the difference (the table is compared
\* as evaluate enters its passes); the tp of a surviving match is 1 minus
\* the penalty
C8_LinePenalty ==
    /\ JustMatched => \A g \in 0..MaxLine : \A p \in 0..MaxLine :
            /\ get_penalty(g, p) = PenaltyOfDiff(Abs(g - p))
            /\ get_penalty(g, p) = get_penalty(p, g)
    /\ HasResult => \A k \in 1..Len(DetailsSeq) :
            LET d == DetailsSeq[k] IN
            IsMatched(d) =>
                /\ d.line_number_penalty =
                     PenaltyOfDiff(Abs(GT[d.gt_ref].line_number - Pred[d.pred_ref].line_number))
                /\ d.tp = One - d.line_number_penalty

\* a surviving match three lines off (tp = 0.1) and one below its
\* ground-truth line
C8_Witness ==
    /\ HasResult
    /\ \E k \in 1..Len(DetailsSeq) :
            IsMatched(DetailsSeq[k]) /\ DetailsSeq[k].line_diff = 3 /\ DetailsSeq[k].tp = 10
    /\ \E k \in 1..Len(DetailsSeq) :
            /\ IsMatched(DetailsSeq[k])
            /\ DetailsSeq[k].observed_line_number < GT[DetailsSeq[k].gt_ref].line_number

\* some judge reply received so far cannot be parsed by the extractor
UnparseableReply == unparsed # <<>>

\* C9: once a judge reply cannot be parsed, evaluate has raised and returned
\* no result, no results file is written, the leaderboard store is as it
\* was and the exit status is 1
C9_UnparseableReplyIsFatal ==
    UnparseableReply =>
        /\ raised = "JSONDecodeError"
        /\ result = NoResult
        /\ output_file = NoFile
        /\ leaderboard_file \in {NoFile, File(<<OldEntry>>)}
        /\ pc = "exit"
        /\ exit_code = 1

\* the second judge reply of a run could not be parsed
C9_Witness ==
    /\ raised = "JSONDecodeError"
    /\ Len(judge_calls) = 2
    /\ Len(unparsed) = 1
    /\ judge_calls[1] \in DOMAIN judgments

\* C10: when the chat-completion call returned a text, generate_predictions
\* does not raise and writes the output file; when no JSON could be
\* extracted the file has empty edits, an error and the first 1000
\* characters of the text as raw_response
C10_OutputAlwaysWritten ==
    (command = "generate_predictions" /\ response_text # Absent /\ pc = "exit") =>
        /\ raised = ""
        /\ output_file # NoFile
        /\ result = Returned(Content(output_file))
        /\ extract_json_from_llm_response(response_text[1]) = Invalid =>
                /\ Content(output_file).edits = <<>>
                /\ Content(output_file).error # Absent
                /\ Content(output_file).raw_response =
                        Present(Prefix(response_text[1], RawResponseLimit))

\* the path contains "eval" in some letter case
NamesEval(path) ==
    \E k \in 1..(Len(path) - 3) :
        /\ path[k] \in {"e", "E"}
        /\ path[k + 1] \in {"v", "V"}
        /\ path[k + 2] \in {"a", "A"}
        /\ path[k + 3] \in {"l", "L"}

\* few-shot prompting was requested on an existing evaluation-data path
FewShotOnEvalPath ==
    /\ command \in {"generate_predictions", "generate"}
    /\ shots > 0
    /\ sample_dataset # NoPath
    /\ sample_dataset_exists
    /\ NamesEval(sample_dataset)

\* C11: when few-shot prompting is requested on an existing path containing
\* "eval" in any letter case, generation (library function and CLI command)
\* ends in failure with no chat-completion call, no prompt built and no
\* output file; load_examples rejects such a path without calling
\* load_from_disk
C11_EvalPathIsFatal ==
    /\ FewShotOnEvalPath =>
        /\ chat_calls = 0
        /\ messages = ""
        /\ response_text = Absent
        /\ output_file = NoFile
        /\ pc = "exit" => raised \in {"FileNotFoundError", "ValueError", "Exit"}
        /\ pc \in {"generate_predictions", "gen_examples", "generate", "cli_examples", "exit"}
    /\ \A path \in SamplePaths : \A loads \in BOOLEAN :
        NamesEval(path) =>
            /\ load_examples(path, MaxShots, loads, MaxShots).raised = "ValueError"
            /\ ~load_examples(path, MaxShots, loads, MaxShots).load_called

\* the image exists and the run ended on the safety check of a path that
\* spells "eval" with capitals
C11_Witness ==
    /\ FewShotOnEvalPath
    /\ image_exists
    /\ pc = "exit"
    /\ ~IsSubstring(<<"e", "v", "a", "l">>, sample_dataset)

\* EditOperation.model_validate: the required fields are present
EditOperationValidates(e) ==
    {"type", "original_text", "corrected_text"} \subseteq DOMAIN e

\* EditAnnotation.model_validate on the content of a file: image and
\* page_number are required, source is the literal "Little Dorrit", edits
\* is a list of EditOperation
EditAnnotationValidates(content) ==
    /\ {"image", "page_number", "edits"} \subseteq DOMAIN content
    /\ content.page_number \in Int
    /\ content.source = "Little Dorrit"
    /\ \A k \in 1..Len(content.edits) : EditOperationValidates(content.edits[k])

\* C12: every prediction file generate_predictions writes validates as an
\* EditAnnotation and carries the image name, page number 1, the source
\* "Little Dorrit", verified false and the profile's logical name
C12_PredictionFileValidates ==
    (command = "generate_predictions" /\ output_file # NoFile) =>
        /\ EditAnnotationValidates(Content(output_file))
        /\ Content(output_file).image = "image.name"
        /\ Content(output_file).page_number = 1
        /\ Content(output_file).verified = FALSE
        /\ Content(output_file).annotator = "logical_name"

\* the last update for a model name
LastUpdateOf(name) ==
    updates[SetMax({k \in 1..Len(updates) : updates[k].model_name = name})]

\* C13: after a sequence of update_leaderboard calls from an absent or empty
\* store, the persisted store holds exactly one entry per distinct
\* model_name, carrying the most recent update for that name, ordered by F1
\* score descending
C13_OneEntryPerModel ==
    (command = "update_leaderboard" /\ updates # <<>>) =>
        /\ leaderboard_file # NoFile
        /\ LET store == Content(leaderboard_file) IN
            /\ {store[k].model_name : k \in 1..Len(store)} =
                    {updates[k].model_name : k \in 1..Len(updates)}
            /\ \A a, b \in 1..Len(store) :
                    a < b => /\ store[a].model_name # store[b].model_name
                             /\ store[a].details >= store[b].details
            /\ \A k \in 1..Len(store) : store[k] = LastUpdateOf(store[k].model_name)

\* the base profile was loaded first and only overlays after it
BaseThenOverlays ==
    /\ command = "config"
    /\ Len(load_history) >= 2
    /\ load_history[1].model_id = BaseId
    /\ RequiredFields \subseteq DOMAIN load_history[1].model_config
    /\ \A k \in 2..Len(load_history) : load_history[k].model_id = OverlayId

\* the value a table gives a field, ${VAR} standing for the variable's value
Resolved(model_config, f) ==
    IF model_config[f] = Placeholder THEN config_manager.environ
    ELSE model_config[f]

\* the overlays of the history that specify field f
Specifying(f) ==
    {k \in 2..Len(load_history) : f \in DOMAIN load_history[k].model_config}

\* C14: after a base profile and then overlays "local:X" were loaded,
\* get_model(X) returns, per field, the value of the last overlay that
\* specifies the field, and the base profile's value when none does
C14_OverlayPrecedence ==
    (BaseThenOverlays /\ result # NoResult) =>
        \A f \in RequiredFields \cup {"api_key"} :
            Details(result)[f] =
                IF Specifying(f) # {}
                THEN Resolved(load_history[SetMax(Specifying(f))].model_config, f)
                ELSE IF f \in DOMAIN load_history[1].model_config
                     THEN Resolved(load_history[1].model_config, f)
                     ELSE ""

\* two overlays were loaded over the base: the first sets endpoint and
\* api_key, the second only api_key; get_model has returned
C14_Witness ==
    /\ BaseThenOverlays
    /\ result # NoResult
    /\ Len(load_history) = 3
    /\ DOMAIN load_history[2].model_config = {"endpoint", "api_key"}
    /\ DOMAIN load_history[3].model_config = {"api_key"}
    /\ load_history[2].model_config["api_key"] # load_history[3].model_config["api_key"]
    /\ "api_key" \in DOMAIN load_history[1].model_config

\* a run of one of the three commands has ended in failure
FailedCliRun ==
    /\ command \in {"run", "generate", "convert"}
    /\ pc = "exit"
    /\ exit_code # 0

\* C15: every failing run of evaluate run, generate and convert run has
\* printed exactly one red error line and exits with status 1
C15_OneRedLine ==
    FailedCliRun => (red_lines = 1 /\ exit_code = 1)

\* a required input path of the command does not exist
MissingRequiredPath ==
    \/ command = "run" /\ (prediction_file = NoFile \/ ground_truth_file = NoFile)
    \/ command = "generate" /\ ~image_exists
    \/ command = "convert" /\ input_dir = "absent"

\* C16: with a required input path missing, every step of evaluate run,
\* generate and convert run ends the command with status 1 and leaves the
\* model calls, the output files, the directories and the leaderboard as
\* they were
C16_PathsCheckedFirst ==
    [][MissingRequiredPath =>
        /\ pc' = "exit"
        /\ exit_code' = 1
        /\ UNCHANGED <<judge_calls, chat_calls, output_file, output_dir,
                       dataset, leaderboard_file, updates>>]_vars

\* a command with a missing required path has ended
C16_Witness ==
    /\ MissingRequiredPath
    /\ pc = "exit"
    /\ exit_code = 1

\* json.dumps of an object of the token texts
json_dumps(obj) ==
    IF obj.members = {} THEN <<"{", "}">>
    ELSE <<"{", CHOOSE m \in obj.members : TRUE, "}">>

\* the objects a response carries: empty, or with its edits member
JsonObjects == {[kind |-> "object", members |-> ms] : ms \in {{}, {"E"}}}

\* prose, possibly none: words, the word json among them, no braces and no
\* fences
IsProse(t) == \A k \in 1..Len(t) : t[k] \in {"P", "J"}

\* the three ways a response wraps the serialization of obj: a fenced block
\* with a language tag, a fenced block without one, prose around it
Wrappings(obj) ==
    {<<"F", tag>> \o json_dumps(obj) \o <<"F">> : tag \in {"J", "P"}}
    \cup {<<"F">> \o json_dumps(obj) \o <<"F">>, json_dumps(obj)}

\* the text is one of the wrappings of obj with prose before and after it
IsWrapped(text, obj) ==
    \E a \in 1..(Len(text) + 1) : \E b \in (a - 1)..Len(text) :
        /\ IsProse(SubSeq(text, 1, a - 1))
        /\ SubSeq(text, a, b) \in Wrappings(obj)
        /\ IsProse(SubSeq(text, b + 1, Len(text)))

\* no part of the text is valid JSON
NoJsonAnywhere(text) ==
    \A a \in 1..Len(text) : \A b \in a..Len(text) :
        json_loads(SubSeq(text, a, b)) = Invalid

ExtractReturned == command = "extract" /\ result # NoResult

MetricsReturned == command = "calculate_metrics" /\ result # NoResult

\* p / q = n / d, for a quotient <<p, q>> and integers n, d
RatIs(x, n, d) == x[1] * d = n * x[2]

SiteWritten == command = "build_site_results" /\ site_results # NoFile

PublishedNames ==
    {Content(site_results)[k].model_name : k \in 1..Len(Content(site_results))}

\* C19: a model directory that holds a .noinclude marker contributes no
\* entry to the published results list
C19_NoIncludeSkipped ==
    SiteWritten =>
        \A k \in 1..Len(predictions_dir) :
            predictions_dir[k].noinclude =>
                DisplayName(predictions_dir[k].name) \notin PublishedNames

\* the directories without marker whose entry is published
PublishedDirs ==
    {k \in 1..Len(predictions_dir) :
        /\ ~predictions_dir[k].noinclude
        /\ Collected(predictions_dir[k], ShotFilter)}

IsLowerCaseId(name) ==
    \A k \in DOMAIN name : name[k] \in LowerLetters \cup Digits \cup {"-"}

StartsWithGpt(name) == Len(name) >= 3 /\ SubSeq(name, 1, 3) = <<"g", "p", "t">>

Occurrences(seq, x) == Cardinality({k \in 1..Len(seq) : seq[k] = x})

\* C24: match_edits partitions its inputs: every line-numbered prediction is
\* the prediction of exactly one candidate pair or occurs once among the
\* false positives, every ground-truth edit is the ground truth of exactly
\* one candidate pair or occurs once among the false negatives, and the
\* sizes add up
C24_MatchPartition ==
    JustMatched =>
        /\ \A p \in ValidPreds :
              Cardinality({k \in 1..Len(true_positives) : true_positives[k][2] = p})
                + Occurrences(false_positives, p) = 1
        /\ \A g \in 1..Len(GT) :
              Cardinality({k \in 1..Len(true_positives) : true_positives[k][1] = g})
                + Occurrences(false_negatives, g) = 1
        /\ \A k \in 1..Len(true_positives) :
              true_positives[k][1] \in 1..Len(GT) /\ true_positives[k][2] \in ValidPreds
        /\ SeqRange(false_positives) \subseteq ValidPreds
        /\ SeqRange(false_negatives) \subseteq 1..Len(GT)
        /\ Len(true_positives) + Len(false_positives) = Cardinality(ValidPreds)
        /\ Len(true_positives) + Len(false_negatives) = Len(GT)

\* match_edits returned a pair, a false positive and a false negative
C24_Witness ==
    /\ JustMatched
    /\ Len(true_positives) = 1
    /\ Len(false_positives) = 1
    /\ Len(false_negatives) = 1

\* the entries of the result that carry an expected / an observed number
ExpectedEntries == {k \in 1..Len(DetailsSeq) : DetailsSeq[k].expected_edit_num # None}
ObservedEntries == {k \in 1..Len(DetailsSeq) : DetailsSeq[k].observed_edit_num # None}

\* C25: in the details of a returned result, the entries with an
\* expected_edit_num are as many as the ground-truth edits, the entries with
\* an observed_edit_num as many as the line-numbered predictions, and no two
\* entries share an expected_edit_num or an observed_edit_num
C25_AccountedOnce ==
    HasResult =>
        /\ Cardinality(ExpectedEntries) = Len(GT)
        /\ Cardinality(ObservedEntries) = Cardinality(ValidPreds)
        /\ \A a, b \in ExpectedEntries :
              a # b => DetailsSeq[a].expected_edit_num # DetailsSeq[b].expected_edit_num
        /\ \A a, b \in ObservedEntries :
              a # b => DetailsSeq[a].observed_edit_num # DetailsSeq[b].observed_edit_num

\* a result after one of two candidate pairs was dissolved
C25_Witness ==
    /\ HasResult
    /\ Len(true_positives) = 2
    /\ Len(remaining_true_positives) = 1
    /\ Len(DetailsSeq) = 3

\* the line difference of a candidate pair
PairLineDiff(pr) == Abs(GT[pr[1]].line_number - Pred[pr[2]].line_number)

\* the candidate pairs the first pass has dissolved
Dissolved ==
    {k \in 1..Len(true_positives) :
        true_positives[k] \notin SeqRange(remaining_true_positives)}

\* C26: every candidate pair of match_edits is at most three lines apart and
\* has a line penalty of at most 0.9; a pair is dissolved only when the
\* judge did not say it is correct; every surviving match has tp 1.0, 0.9,
\* 0.6 or 0.1
C26_NoFullPenalty ==
    /\ pc \in {"first_pass", "save", "leaderboard"} =>
        /\ \A k \in 1..Len(true_positives) :
              /\ PairLineDiff(true_positives[k]) <= 3
              /\ get_penalty(GT[true_positives[k][1]].line_number,
                             Pred[true_positives[k][2]].line_number) <= 90
        /\ \A k \in Dissolved :
              /\ true_positives[k] \in DOMAIN judgments
              /\ "T" \notin judgments[true_positives[k]].members
    /\ HasResult => \A k \in 1..Len(DetailsSeq) :
            IsMatched(DetailsSeq[k]) => DetailsSeq[k].tp \in {One, 90, 60, 10}

\* a pair three lines apart was dissolved on the judge's verdict and another
\* pair survived
C26_Witness ==
    /\ HasResult
    /\ \E k \in Dissolved : PairLineDiff(true_positives[k]) = 3
    /\ remaining_true_positives # <<>>

\* a call of update_leaderboard that raised
FailedUpdate ==
    /\ command = "update_leaderboard"
    /\ updates' # updates
    /\ raised' # ""

\* C27: when update_leaderboard raises before its write, the persisted store
\* is as it was before the call, except that an absent store has been created
\* empty, and index.html is not regenerated
C27_FailedUpdateFrame ==
    [][FailedUpdate =>
          /\ leaderboard_file' = IF leaderboard_file = NoFile THEN File(<<>>)
                                 ELSE leaderboard_file
          /\ index_html' = index_html]_vars

\* a failed update for a model the store already holds an entry of
C27_Witness ==
    /\ command = "update_leaderboard"
    /\ raised = "KeyError"
    /\ Len(updates) = 1
    /\ updates[1].model_name = StoredEntry.model_name
    /\ leaderboard_file = File(<<StoredEntry, OldEntry>>)
    /\ index_html = NoFile
    /\ ScriptsIdle

\* C29: whenever the extractor returns, the value is a JSON object, never an
\* array or another JSON value, also for a text that is itself valid JSON
C29_ReturnsObject ==
    (ExtractReturned /\ Details(result).raised = "") =>
        Details(result).value.kind = "object"

\* every model directory is published and holds only result files as
\* `evaluate run --output` writes them, details being the list of matches
EvaluateOutputOnly ==
    /\ predictions_dir # <<>>
    /\ \A k \in 1..Len(predictions_dir) :
          /\ Collected(predictions_dir[k], ShotFilter)
          /\ \A j \in 1..Len(predictions_dir[k].result_files) :
                predictions_dir[k].result_files[j] = ListDetails

\* C30: on result files written by `evaluate run --output` the site builder
\* completes: collect_model_results raises nothing and returns one entry per
\* model
C30_BuildsOnEvaluateOutput ==
    (command = "build_site_results" /\ pc = "exit" /\ EvaluateOutputOnly) =>
        /\ raised = ""
        /\ site_results # NoFile
        /\ Len(Content(site_results)) = Len(predictions_dir)

\* the metrics display_results shows for the returned result
Shown == display_results(DetailsSeq)

\* calculate_metrics on the lists evaluate ends with: the surviving pairs,
\* each with the judgment whose score is its tp, the false positives and the
\* false negatives
Calculated ==
    LET score(pr) == Max(0, One - judgments[pr].line_penalty) IN
    calculate_metrics(
        [k \in 1..Len(remaining_true_positives) |->
            <<[type |-> GT[remaining_true_positives[k][1]].type],
              [type |-> Pred[remaining_true_positives[k][2]].type]>>],
        [k \in 1..Len(false_positives) |-> [type |-> Pred[false_positives[k]].type]],
        [k \in 1..Len(false_negatives) |-> [type |-> GT[false_negatives[k]].type]],
        [k \in 1..Len(remaining_true_positives) |->
            [is_correct |-> TRUE,
             score |-> score(remaining_true_positives[k]),
             is_correct_with_penalty |->
                 Present(score(remaining_true_positives[k]) >= 50)]])

\* no surviving pair carries a line penalty
NoPenalisedMatch ==
    \A k \in 1..Len(DetailsSeq) : IsMatched(DetailsSeq[k]) => DetailsSeq[k].tp = One

\* C28 as stated: for every result of evaluate, the precision, recall and F1
\* of display_results equal those of calculate_metrics on the same run's
\* surviving matches, false positives and false negatives
C28_AggregationsAgree ==
    HasResult =>
        /\ Shown.precision = Calculated.precision
        /\ Shown.recall = Calculated.recall
        /\ Shown.f1_score = Calculated.f1_score

\* C28, amended: the two aggregations agree when no surviving match carries a
\* line penalty; when one does, display_results counts only half of each
\* remainder 1 - tp as false positive and as false negative, and its
\* precision, recall and F1 are each greater than those of calculate_metrics
C28_AgreeWithoutPenalty ==
    HasResult =>
        IF NoPenalisedMatch
        THEN /\ Shown.precision = Calculated.precision
             /\ Shown.recall = Calculated.recall
             /\ Shown.f1_score = Calculated.f1_score
        ELSE /\ RatLess(Calculated.precision, Shown.precision)
             /\ RatLess(Calculated.recall, Shown.recall)
             /\ RatLess(Calculated.f1_score, Shown.f1_score)

\* a result with an unpenalised surviving match, beside a false positive and
\* a false negative
C28_Witness ==
    /\ HasResult
    /\ NoPenalisedMatch
    /\ \E k \in 1..Len(DetailsSeq) : IsMatched(DetailsSeq[k])
    /\ \E k \in 1..Len(DetailsSeq) : IsPureFP(DetailsSeq[k])
    /\ \E k \in 1..Len(DetailsSeq) : IsPureFN(DetailsSeq[k])

\* the layout the migrator aims at: no prediction file left in eval/ or
\* sample/, no result file left directly in results/, and the result files of
\* results/sample and results/eval told apart by their file id
Migrated(tree) ==
    /\ \A f \in FilesOf(tree.eval) \cup FilesOf(tree.sample) : ~Glob(f, "prediction")
    /\ tree.results # Absent =>
        /\ \A f \in tree.results[1].top : ~Glob(f, "results")
        /\ \A f \in FilesOf(tree.results[1].sample) :
              Glob(f, "results") => FileId(f) \in {<<"001">>, <<"002">>}
        /\ \A f \in FilesOf(tree.results[1].eval) :
              Glob(f, "results") => FileId(f) \notin {<<"001">>, <<"002">>}

\* a run of the migrator that follows another run of the same day
RerunSameDay ==
    /\ command = "reorganize_directories"
    /\ moved_files # <<>>
    /\ Len(moved_files') = Len(moved_files) + 1
    /\ moved_files'[Len(moved_files')].date = moved_files[Len(moved_files)].date

Audited == command = "check_predictions" /\ report # <<>>

\* C22: in strict mode a model is reported OK only if every question has
\* exactly the target number of runs
C22_StrictExactTarget ==
    (Audited /\ audit_args.strict /\ report[1].status = "OK") =>
        \A q \in DOMAIN model_stats.question_runs :
            Len(model_stats.question_runs[q]) = audit_args.target_runs

\* the run counts once every question has received the additional runs
\* reported for it
AfterSuggestedRuns ==
    [q \in DOMAIN model_stats.question_runs |->
        Len(model_stats.question_runs[q]) +
            (IF q \in DOMAIN report[1].needed_runs THEN report[1].needed_runs[q] ELSE 0)]

\* C23: in standard mode the suggested prediction command names the
\* questions whose run count is below the most common run count of the
\* model, and with the additional runs reported for them all questions have
\* the same number of runs
C23_SuggestionBalances ==
    (Audited /\ ~audit_args.strict /\ audit_args.suggest_fixes
        /\ DOMAIN model_stats.question_runs # {}) =>
        /\ FilesOf(report[1].prediction_command) =
              {q \in DOMAIN model_stats.question_runs :
                  Len(model_stats.question_runs[q]) < MostCommonCount(RunCounts(model_stats))}
        /\ \A q1, q2 \in DOMAIN AfterSuggestedRuns :
              AfterSuggestedRuns[q1] = AfterSuggestedRuns[q2]

====
